---- MODULE Spec2Model ----
(***************************************************************************)
(* Model of regclient's sync orchestrator (cmd/regsync/root.go):           *)
(*   - runOnce / runCheck / runServer and the cron scheduler chain,        *)
(*   - ConfigSync.processRef with the weighted semaphore `sem`,            *)
(*   - ConfigSync.process over the repositories and tags of a step,        *)
(*   - ConfigSync.filterTags,                                              *)
(* and of the HTTP client with mirrors, retries and backoff                *)
(* (internal/reghttp/http.go):                                             *)
(*   - Client.Do with the ordering of the candidate hosts,                 *)
(*   - clientResp.Next with backoffSet / backoffClear, for one request     *)
(*     and for requests of one client that run at the same time,           *)
(*   - clientResp.Read with the resumption of a body that ended early,     *)
(*     and clientResp.Close,                                               *)
(* of the manifest calls of the OCI directory scheme (ManifestPut,         *)
(* ManifestDelete, ManifestGet, ManifestHead; two ManifestPut calls on     *)
(* one directory at the same time) and of getPlatformDigest with the       *)
(* manifest cache of regsync.                                              *)
(***************************************************************************)
EXTENDS Integers, Sequences, FiniteSets, TLC

\* ------------------------------------------------------------------ bounds
MaxSteps == 2      \* len(conf.Sync)
MaxParallel == 2   \* largest conf.Defaults.Parallel drawn
MaxFires == 3      \* cron firings that are explored
MaxRetry == 1      \* rate-limit pauses of one processRef that are explored
MaxRemain == 1     \* largest RateLimit.Remain reported by the source
MaxTagList == 2    \* length of the tag list given to filterTags
MaxAllow == 2      \* len(s.Tags.Allow)
MaxDeny == 2       \* len(s.Tags.Deny)
MaxMirrors == 2    \* len(reqHost.config.Mirrors)
MaxPriority == 1   \* largest config.Priority drawn
MaxRetryLimit == 2 \* largest c.retryLimit drawn
MaxDelay == 3      \* largest c.delayMax drawn, in units of c.delayInit
MaxRetryAfter == 3 \* largest Retry-After header drawn, in the same units
MaxAuth == 1       \* 401 challenges the auth handler accepts within one call
MaxFreeMirrors == 1 \* mirrors of a request whose hosts may answer anything
MaxUntil == 3      \* latest backoffUntil a host has from earlier requests (now is 2)
MaxReadMirrors == 1 \* mirrors of a request whose response body is read
MaxSize == 3       \* largest length of the object a request asks for
MaxResume == 2     \* bodies of one response that end early
MaxDigests == 2    \* distinct manifests put into one OCI directory
MaxIndex == 3      \* largest number of entries in index.json
MaxWorkers == 2    \* workers of one regsync run that resolve a platform
MaxIndexDigests == 2 \* distinct source indexes they resolve
MaxResolves == 2   \* calls of getPlatformDigest by one worker
MaxRepos == 2      \* repositories the source registry of a step lists
MaxRepoTags == 2   \* tags of a repository that pass the filters
MaxRequests == 2   \* requests of one client that run at the same time
MaxCalls == 3      \* calls of Next those requests make to one host
MaxSerialCalls == 9 \* calls of Next to one host when they come one after the other

\* width of time.Duration, int64 in the code, scaled down with the delays
\* (c.delayInit is 1, so the shift of line 604 overflows from a
\* backoffCur of DurationBits - 1 on as a delayInit of one second does
\* from 34 on)
DurationBits == 8

Steps == 1..MaxSteps
Digests == 1..2

VARIABLES
    mode,          \* which command runs: runOnce, runCheck, runServer
    parallel,      \* conf.Defaults.Parallel
    rateLimitMin,  \* s.RateLimit.Min
    backup,        \* s.Backup != ""
    mainPc,        \* position of the command's main goroutine
    mainI,         \* index of the next step in `for _, s := range conf.Sync`
    mainErr,       \* var mainErr error
    wg,            \* sync.WaitGroup counter
    ctxDone,       \* ctx has been cancelled
    semCur,        \* permits currently taken from sem (semaphore cur)
    panicked,      \* the process died in a panic (Release of more than held)
    releasedUnheld,\* some sem.Release(1) ran in a worker whose Acquire had failed
    pc,            \* position of the goroutine that runs step s
    tgtExists,     \* processRef local tgtExists
    tgtMatches,    \* processRef local tgtMatches
    tgtDiffers,    \* observed: target HEAD succeeded with a digest other than the source's
    headSame,      \* observed: the latest target HEAD succeeded with the digest of the
                   \* source HEAD, for a step whose forceRecursive is unset or false
    rlSet,         \* mSrc.GetRateLimit().Set of the first source HEAD
    remain,        \* rlSrc.Remain
    held,          \* the worker's last sem.Acquire returned nil and it has not released since
    tries,         \* rate-limit pauses taken by the current processRef
    backedUp,      \* the backup ImageCopy of the current processRef has run
    backupFailed,  \* that backup ImageCopy returned an error
    ret,           \* runOnce, runCheck: the error s.process returned for step s
    fires,         \* cron firings so far
    jobChan,       \* SkipIfStillRunning's token channel of step s (1 = token present)
    nRunning,      \* invocations of step s that are inside the wrapped job function
    skips,         \* firings the SkipIfStillRunning wrapper skipped
    fPhase,        \* filterTags: "off", "init" (not called yet), "filtered", "second"
    fIn,           \* the caller's tag list (the slice handed to filterTags)
    fIn0,          \* the tags of that list before the first call
    fAllow,        \* s.Tags.Allow
    fDeny,         \* s.Tags.Deny
    fOut,          \* the list the first call returned
    fErr,          \* the first call returned an error
    fCall2,        \* the second call made: "none", "again", "moredeny"
    fOut2,         \* the list the second call returned
    fErr2,         \* the second call returned an error
    hPc,           \* reghttp: "off", "idle", "loop" (head of the for loop), "sleep", "returned"
    nMirrors,      \* len(reqHost.config.Mirrors); the mirrors are the hosts 1..nMirrors
    answers,       \* the outcomes an attempt at each host can have (what the host answers)
    priority,      \* config.Priority of each host
    retryLimit,    \* c.retryLimit
    delayInit,     \* c.delayInit
    delayMax,      \* c.delayMax
    now,           \* time.Now(); the zero time.Time is 0
    backoffCur,    \* clientHost.backoffCur of each host
    backoffUntil,  \* clientHost.backoffUntil of each host
    noMirrors,     \* req.NoMirrors
    ignoreErr,     \* api.IgnoreErr
    hosts,         \* Next's local slice hosts
    curHost,       \* Next's local curHost (counted from 1)
    mirror,        \* resp.mirror, the host of the current attempt
    respRA,        \* Retry-After header of resp.resp (0: no response or no header)
    hCtxDone,      \* resp.ctx has been cancelled
    hRet,          \* the error Next returned
    lastOut,       \* outcome of the latest attempt of this call
    contacts,      \* HTTP requests sent to each host by this call
    hClean,        \* every candidate had backoffCur 0 and no backoffUntil when the call began
    hFresh,        \* hosts is still the list as sorted at line 248
    nAuth,         \* 401 challenges accepted in this call
    rPc,           \* the response body: "off", "new" (no response yet), "open", "next"
                   \* (Read is inside resp.Next()), "failed" (Do returned an error)
    method,        \* api.Method
    digest,        \* api.Digest: "" (none), "match" (the object's) or "other"
    size,          \* length of the object the hosts serve; its bytes are 1..size
    readCur,       \* resp.readCur
    readMax,       \* resp.readMax
    body,          \* the bytes resp.resp.Body still has to give
    bodyEnd,       \* the error resp.resp.Body gives after them
    range,         \* Range header of the latest request sent: <<>> or <<first, last>>
    got,           \* the bytes the Read calls have returned so far
    hashed,        \* the bytes written to resp.digester
    done,          \* resp.done
    rErr,          \* the error of the latest Read call that returned
    pendErr,       \* the reader's error of the Read call that is inside resp.Next()
    resumes,       \* short reads so far
    hasResp,       \* resp.resp != nil
    closed,        \* observed: Close has been called on the response
    oPc,           \* ocidir: "off", "idle", or the position of the running call
    oOp,           \* the latest call: "put", "delete", "get", "head"
    oRef,          \* its reference r: [tag, digest], "" and 0 for an empty field
    oMan,          \* ManifestPut: m.GetDigest()
    oChild,        \* ManifestPut: config.Child
    oIndex,        \* ManifestPut: the local variable index (index.Manifests)
    oRet,          \* the error the latest call returned, "panic" when it panicked
    oGot,          \* ManifestGet, ManifestHead: digest of the manifest returned (0: none)
    hasIndex,      \* index.json exists in the directory
    index,         \* Manifests of index.json: entries [tag, digest], tag "" without annotation
    blob,          \* the file blobs/<algo>/<hex> of each digest: "absent", "empty", "partial", "full"
    index0,        \* index.json when the latest call began
    blob0,         \* the blob files when the latest call began
    seen,          \* what the latest reader of a blob file found while the call was
                   \* running: <<digest, content>>, <<>> when there was none
    o2Pc,          \* a ManifestPut of another goroutine on the same directory: "off",
                   \* "idle", "put", "write", "index", "done"
    o2Ref,         \* its reference r
    o2Man,         \* its m.GetDigest()
    o2Index,       \* its local variable index (index.Manifests)
    gpPc,          \* getPlatformDigest of each worker: "off", "idle", "lock", "get",
                   \* "unlock", "done"
    gpMan,         \* origMan.GetDigest() of the worker's call
    gpRet,         \* the error the worker's call returned
    cacheMu,       \* manifestCache.mu: the worker that holds it, 0 when it is free
    cacheManifests,\* the keys of manifestCache.manifests
    nGets,         \* rc.ManifestGet calls made for each index digest
    gpCalls,       \* getPlatformDigest calls each worker has made
    qPc,           \* concurrent requests to one host: "off", "idle", "check", "sleep",
                   \* "send", "lock", "write", "unlock"
    qOp,           \* what the request does after its attempt: <<"set", Retry-After>>,
                   \* <<"clear">>, and the result of backoffSet once it ran
    qSeen,         \* h.backoffUntil as the request read it at line 328
    clientMu,      \* c.mu: the request that holds it, 0 when it is free
    access,        \* the latest access to backoffCur or backoffUntil:
                   \* [req, field, write, locked], <<>> before the first
    qCalls,        \* calls of Next made so far
    pPc,           \* process of one step: "off", "repo" (head of the loop over the
                   \* repositories), "tag" (head of the loop over the tags), "returned"
    pType,         \* s.Type: "registry" or "repository"
    pRepos,        \* what happens to each repository: [kind, tags], tags the results of
                   \* processRef for its tags
    pI,            \* index of the repository of the loop
    pJ,            \* index of the tag of the loop
    retErr,        \* var retErr error
    pFailed,       \* the sync of a repository or of a tag has failed in this call
    pRet           \* the error process returned

cfgVars == <<mode, parallel, rateLimitMin, backup>>
semVars == <<semCur, panicked, releasedUnheld>>
refVars == <<tgtExists, tgtMatches, tgtDiffers, rlSet, remain, held, tries, backedUp,
            backupFailed>>
callerVars == <<mainErr, wg, jobChan, nRunning, ret>>
syncVars == <<cfgVars, mainPc, mainI, ctxDone, semVars, pc, refVars, callerVars, fires, skips,
             headSame>>
filterVars == <<fPhase, fIn, fIn0, fAllow, fDeny, fOut, fErr, fCall2, fOut2, fErr2>>
clientVars == <<nMirrors, answers, priority, retryLimit, delayInit, delayMax>>
httpVars == <<hPc, clientVars, now, backoffCur, backoffUntil, noMirrors, ignoreErr, hosts,
             curHost, mirror, respRA, hCtxDone, hRet, lastOut, contacts, hClean,
             hFresh, nAuth>>
readVars == <<rPc, method, digest, size, readCur, readMax, body, bodyEnd, range, got, hashed,
             done, rErr, pendErr, resumes, hasResp, closed>>
dirVars == <<oPc, oOp, oRef, oMan, oChild, oIndex, oRet, oGot, hasIndex, index, blob, index0,
            blob0, seen>>
putVars == <<o2Pc, o2Ref, o2Man, o2Index>>
ociVars == <<dirVars, putVars>>
cacheVars == <<gpPc, gpMan, gpRet, cacheMu, cacheManifests, nGets, gpCalls>>
lockVars == <<qPc, qOp, qSeen, clientMu, access, qCalls>>
procVars == <<pPc, pType, pRepos, pI, pJ, retErr, pFailed, pRet>>
vars == <<syncVars, filterVars, httpVars, readVars, ociVars, cacheVars, lockVars, procVars>>

\* loadConf: concurrent := int64(conf.Defaults.Parallel); if concurrent <= 0 { concurrent = 1 }
SemSize == IF parallel <= 0 THEN 1 ELSE parallel

\* the action string handed to s.process
Action == IF mode = "check" THEN "check" ELSE "copy"

\* runOnce starts a goroutine per step only when conf.Defaults.Parallel > 0; runCheck never does
Sequential == mode = "check" \/ parallel <= 0

\* the configuration file: defaults.parallel, ratelimit.min, backup
InitConf ==
    /\ parallel \in 0..MaxParallel
    /\ rateLimitMin \in 0..1
    /\ backup \in BOOLEAN

InitSync ==
    /\ mainI = 1
    /\ mainErr = "nil"
    /\ wg = 0
    /\ ctxDone = FALSE
    /\ semCur = 0
    /\ panicked = FALSE
    /\ releasedUnheld = FALSE
    /\ pc = [s \in Steps |-> "idle"]
    /\ tgtExists = [s \in Steps |-> FALSE]
    /\ tgtMatches = [s \in Steps |-> FALSE]
    /\ tgtDiffers = [s \in Steps |-> FALSE]
    /\ headSame = FALSE
    /\ rlSet = [s \in Steps |-> FALSE]
    /\ remain = [s \in Steps |-> 0]
    /\ held = [s \in Steps |-> FALSE]
    /\ tries = [s \in Steps |-> 0]
    /\ backedUp = [s \in Steps |-> FALSE]
    /\ backupFailed = [s \in Steps |-> FALSE]
    /\ ret = [s \in Steps |-> "nil"]
    /\ fires = 0
    /\ skips = 0
    /\ jobChan = [s \in Steps |-> 1]
    /\ nRunning = [s \in Steps |-> 0]

\* no filterTags call is followed
FilterOff ==
    /\ fPhase = "off"
    /\ fIn = <<>>
    /\ fIn0 = <<>>
    /\ fAllow = <<>>
    /\ fDeny = <<>>
    /\ fOut = <<>>
    /\ fErr = FALSE
    /\ fCall2 = "none"
    /\ fOut2 = <<>>
    /\ fErr2 = FALSE

Upstream == 0
HostIds == 0..MaxMirrors

\* a request that has not begun (a new clientResp, lines 223-228)
InitReq ==
    /\ noMirrors = FALSE
    /\ ignoreErr = FALSE
    /\ hosts = <<>>
    /\ curHost = 1
    /\ mirror = Upstream
    /\ respRA = 0
    /\ hCtxDone = FALSE
    /\ hRet = "nil"
    /\ lastOut = "none"
    /\ contacts = [h \in HostIds |-> 0]
    /\ hClean = TRUE
    /\ hFresh = FALSE
    /\ nAuth = 0

\* a clientResp without a response (lines 223-228); m says whether its body
\* is followed
InitBody(m) ==
    /\ rPc = m
    /\ readCur = 0
    /\ readMax = 0
    /\ body = <<>>
    /\ bodyEnd = "EOF"
    /\ range = <<>>
    /\ got = <<>>
    /\ hashed = <<>>
    /\ done = FALSE
    /\ rErr = "none"
    /\ pendErr = "none"
    /\ resumes = 0
    /\ hasResp = FALSE
    /\ closed = FALSE

\* digests of manifests; 0 stands for the empty digest of a reference
ODigests == 1..MaxDigests

\* an OCI directory without manifests and no call running; pos says whether
\* the directory is followed
InitDir(pos) ==
    /\ oPc = pos
    /\ oOp = "none"
    /\ oRef = [tag |-> "", digest |-> 0]
    /\ oMan = 1
    /\ oChild = FALSE
    /\ oIndex = <<>>
    /\ oRet = "nil"
    /\ oGot = 0
    /\ index = <<>>
    /\ blob = [d \in ODigests |-> "absent"]
    /\ index0 = <<>>
    /\ blob0 = [d \in ODigests |-> "absent"]
    /\ seen = <<>>

\* no ManifestPut of another goroutine yet; pos says whether one is followed
InitWriter(pos) ==
    /\ o2Pc = pos
    /\ o2Ref = [tag |-> "", digest |-> 0]
    /\ o2Man = 1
    /\ o2Index = <<>>

\* workers that resolve a platform, and the digests of the source indexes
Workers == 1..MaxWorkers
IndexDigests == 1..MaxIndexDigests

\* no call of process on a registry or a repository is followed
ProcessOff ==
    /\ pPc = "off"
    /\ pType = "registry"
    /\ pRepos = <<>>
    /\ pI = 1
    /\ pJ = 1
    /\ retErr = "nil"
    /\ pFailed = FALSE
    /\ pRet = "nil"

\* requests of one client that run at the same time
Requests == 1..MaxRequests

\* NewClient: c.mu free and no request yet; n of the requests are followed
InitLock(n) ==
    /\ qPc = [r \in Requests |-> IF r <= n THEN "idle" ELSE "off"]
    /\ qOp = [r \in Requests |-> <<>>]
    /\ qSeen = [r \in Requests |-> 0]
    /\ clientMu = 0
    /\ access = <<>>
    /\ qCalls = 0

\* lines 823-830: the empty manifest cache with its mutex free; pos says
\* whether the workers are followed
InitCache(pos) ==
    /\ gpPc = [w \in Workers |-> pos]
    /\ gpMan = [w \in Workers |-> 1]
    /\ gpRet = [w \in Workers |-> "nil"]
    /\ cacheMu = 0
    /\ cacheManifests = {}
    /\ nGets = [d \in IndexDigests |-> 0]
    /\ gpCalls = [w \in Workers |-> 0]

\* no OCI directory, no manifest cache and no concurrent requests are followed
OciOff == InitDir("off") /\ InitWriter("off") /\ hasIndex = FALSE /\ InitCache("off") /\ InitLock(0) /\ ProcessOff

\* no response body is followed
ReadOff ==
    /\ InitBody("off")
    /\ method = "GET"
    /\ digest = ""
    /\ size = 0
    /\ OciOff

\* no reghttp request is followed
HttpOff ==
    /\ hPc = "off"
    /\ nMirrors = 0
    /\ answers = [h \in HostIds |-> {}]
    /\ priority = [h \in HostIds |-> 0]
    /\ retryLimit = 1
    /\ delayInit = 1
    /\ delayMax = 1
    /\ now = 1
    /\ backoffCur = [h \in HostIds |-> 0]
    /\ backoffUntil = [h \in HostIds |-> 0]
    /\ InitReq
    /\ ReadOff

\* regsync once / regsync check
Init ==
    /\ mode \in {"once", "check"}
    /\ mainPc = "loop"
    /\ InitConf
    /\ InitSync
    /\ FilterOff
    /\ HttpOff

\* regsync server
InitServer ==
    /\ mode = "server"
    /\ mainPc = "cron"
    /\ InitConf
    /\ InitSync
    /\ FilterOff
    /\ HttpOff

\* ------------------------------------------------------- processRef helpers

\* what the caller of s.process does with the returned error e:
\*   runServer (lines 235-239): if mainErr == nil { mainErr = err }, the
\*     deferred wg.Done(), and the SkipIfStillRunning wrapper puts its token back;
\*   runOnce / runCheck (lines 181-194, 271-276): if err != nil and mainErr is
\*     read as nil the assignment follows (as a separate step, the goroutines
\*     share mainErr without a lock), otherwise the goroutine ends (wg.Done).
Caller(s, e) ==
    IF mode = "server"
    THEN /\ mainErr' = IF mainErr = "nil" THEN e ELSE mainErr
         /\ wg' = wg - 1
         /\ jobChan' = [jobChan EXCEPT ![s] = 1]
         /\ nRunning' = [nRunning EXCEPT ![s] = nRunning[s] - 1]
         /\ pc' = [pc EXCEPT ![s] = "idle"]
    ELSE IF e # "nil" /\ mainErr = "nil"
    THEN /\ pc' = [pc EXCEPT ![s] = "seterr"]
         /\ UNCHANGED <<mainErr, wg, jobChan, nRunning>>
    ELSE /\ pc' = [pc EXCEPT ![s] = "done"]
         /\ wg' = IF Sequential THEN wg ELSE wg - 1
         /\ UNCHANGED <<mainErr, jobChan, nRunning>>

\* processRef returns e; process (lines 534-558, type image) hands it on as retErr
Return(s, e) ==
    /\ ret' = [ret EXCEPT ![s] = IF mode = "server" THEN "nil" ELSE e]
    /\ tgtExists' = [tgtExists EXCEPT ![s] = FALSE]
    /\ tgtMatches' = [tgtMatches EXCEPT ![s] = FALSE]
    /\ tgtDiffers' = [tgtDiffers EXCEPT ![s] = FALSE]
    /\ rlSet' = [rlSet EXCEPT ![s] = FALSE]
    /\ remain' = [remain EXCEPT ![s] = 0]
    /\ held' = [held EXCEPT ![s] = FALSE]
    /\ tries' = [tries EXCEPT ![s] = 0]
    /\ backedUp' = [backedUp EXCEPT ![s] = FALSE]
    /\ backupFailed' = [backupFailed EXCEPT ![s] = FALSE]
    /\ Caller(s, e)

\* sem.Release(1): s.cur -= n; if s.cur < 0 { panic("semaphore: released more than held") }
SemRelease(s) ==
    /\ semCur' = semCur - 1
    /\ panicked' = (semCur - 1 < 0)
    /\ releasedUnheld' = (releasedUnheld \/ ~held[s])

\* sem.Acquire(ctx, 1) with its error dropped: a permit is taken when one is
\* free; when ctx is done the call returns an error and takes nothing (with
\* ctx done and a permit free either may happen)
SemAcquire(s) ==
    \/ /\ semCur < SemSize
       /\ semCur' = semCur + 1
       /\ held' = [held EXCEPT ![s] = TRUE]
    \/ /\ ctxDone
       /\ semCur' = semCur
       /\ held' = [held EXCEPT ![s] = FALSE]

\* HeadOutcome without the return for action "check" (lines 636-638)
HeadOutcomeCheckCopies(exists, srcD, tgtD, mtFound, plat, force, action) ==
    LET m0 == exists /\ srcD = tgtD
        m1 == IF plat > 0 /\ exists /\ plat = tgtD THEN TRUE ELSE m0
    IN  IF m0 /\ ~force THEN [next |-> "nil", tgtExists |-> FALSE, tgtMatches |-> FALSE]
        ELSE IF ~mtFound THEN [next |-> "nil", tgtExists |-> FALSE, tgtMatches |-> FALSE]
        ELSE IF plat = -1 THEN [next |-> "err", tgtExists |-> FALSE, tgtMatches |-> FALSE]
        ELSE IF plat > 0 /\ m1 /\ ~force THEN [next |-> "nil", tgtExists |-> FALSE, tgtMatches |-> FALSE]
        ELSE [next |-> "acquire", tgtExists |-> exists, tgtMatches |-> m1]

\* lines 574-638 of processRef as a function of what the two HEADs report:
\* plat = 0: no platform resolution, plat = -1: getPlatformDigest failed,
\* otherwise the digest of the platform's manifest
HeadOutcome(exists, srcD, tgtD, mtFound, plat, force, action) ==
    LET m0 == exists /\ srcD = tgtD
        m1 == IF plat > 0 /\ exists /\ plat = tgtD THEN TRUE ELSE m0
    IN  IF m0 /\ ~force THEN [next |-> "nil", tgtExists |-> FALSE, tgtMatches |-> FALSE]
        ELSE IF ~mtFound THEN [next |-> "nil", tgtExists |-> FALSE, tgtMatches |-> FALSE]
        ELSE IF plat = -1 THEN [next |-> "err", tgtExists |-> FALSE, tgtMatches |-> FALSE]
        ELSE IF plat > 0 /\ m1 /\ ~force THEN [next |-> "nil", tgtExists |-> FALSE, tgtMatches |-> FALSE]
        ELSE IF action = "check" THEN [next |-> "nil", tgtExists |-> FALSE, tgtMatches |-> FALSE]
        ELSE [next |-> "acquire", tgtExists |-> exists, tgtMatches |-> m1]

\* the target tag exists with a digest different from the source that is copied
Differs(exists, srcD, tgtD, plat) ==
    exists /\ tgtD # srcD /\ (plat > 0 => tgtD # plat)

\* PauseRelease without the Release: the permit is kept over the pause
PauseKeepPermit(s) ==
    /\ UNCHANGED semVars
    /\ held' = held

\* line 656: sem.Release(1) at the head of the delay loop
PauseRelease(s) ==
    /\ SemRelease(s)
    /\ held' = [held EXCEPT ![s] = FALSE]

\* lines 654-663 and 679-680: the loop condition rlSrc.Remain < s.RateLimit.Min
\* with the HEAD reporting r; when it holds the permit is released for the pause
RateLimitLoop(s, r) ==
    /\ remain' = [remain EXCEPT ![s] = r]
    /\ IF r < rateLimitMin
       THEN /\ tries[s] < MaxRetry
            /\ PauseRelease(s)
            /\ tries' = [tries EXCEPT ![s] = tries[s] + 1]
            /\ pc' = [pc EXCEPT ![s] = "sleep"]
       ELSE /\ pc' = [pc EXCEPT ![s] = "ctxcheck"]
            /\ UNCHANGED <<semVars, held, tries>>
    /\ UNCHANGED <<tgtExists, tgtMatches, tgtDiffers, rlSet, backedUp, backupFailed, callerVars>>

\* BackupDue without the test of tgtMatches
BackupWheneverTargetExists(s) == tgtExists[s] /\ backup

\* line 697: the condition under which the backup copy runs
BackupDue(s) == tgtExists[s] /\ ~tgtMatches[s] /\ backup

\* ------------------------------------------------------ processRef actions

\* HeadResults that takes forceRecursive as true for every step
HeadResultsForced(action) ==
    { [o |-> HeadOutcome(exists, srcD, tgtD, mtFound, plat, TRUE, action),
       differs |-> Differs(exists, srcD, tgtD, plat),
       same |-> exists /\ srcD = tgtD /\ ~force] :
         exists \in BOOLEAN, srcD \in Digests, tgtD \in Digests, mtFound \in BOOLEAN,
         plat \in -1..2, force \in BOOLEAN }

\* every result lines 574-638 can have, over what the registries report
\* (target present or not, the digests, the media type, the platform
\* resolution) and the step's forceRecursive
HeadResults(action) ==
    { [o |-> HeadOutcome(exists, srcD, tgtD, mtFound, plat, force, action),
       differs |-> Differs(exists, srcD, tgtD, plat),
       same |-> exists /\ srcD = tgtD /\ ~force] :
         exists \in BOOLEAN, srcD \in Digests, tgtD \in Digests, mtFound \in BOOLEAN,
         plat \in -1..2, force \in BOOLEAN }

\* lines 563-638: the HEAD of the source fails, or both HEADs answer and the
\* function decides whether a copy is needed
ManifestHeads(s) ==
    /\ pc[s] = "head"
    /\ \/ Return(s, "err") /\ headSame' = FALSE
       \/ \E h \in HeadResults(Action), rl \in BOOLEAN :
             /\ headSame' = h.same
             /\ IF h.o.next = "acquire"
                THEN /\ pc' = [pc EXCEPT ![s] = "acquire"]
                     /\ tgtExists' = [tgtExists EXCEPT ![s] = h.o.tgtExists]
                     /\ tgtMatches' = [tgtMatches EXCEPT ![s] = h.o.tgtMatches]
                     /\ tgtDiffers' = [tgtDiffers EXCEPT ![s] = h.differs]
                     /\ rlSet' = [rlSet EXCEPT ![s] = rl]
                     /\ UNCHANGED <<remain, held, tries, backedUp, backupFailed, callerVars>>
                ELSE Return(s, h.o.next)
    /\ UNCHANGED <<cfgVars, mainPc, mainI, ctxDone, semVars, fires, skips>>

\* lines 641-643: sem.Acquire(ctx, 1), then the test whether the rate limit applies
Acquire(s) ==
    /\ pc[s] = "acquire"
    /\ SemAcquire(s)
    /\ pc' = [pc EXCEPT ![s] =
                IF rateLimitMin > 0 /\ rlSet[s] THEN "rlhead" ELSE "ctxcheck"]
    /\ rlSet' = [rlSet EXCEPT ![s] = FALSE]
    /\ UNCHANGED <<cfgVars, headSame, mainPc, mainI, ctxDone, panicked, releasedUnheld, fires, skips,
                   callerVars, tgtExists, tgtMatches, tgtDiffers, remain, tries, backedUp,
                   backupFailed>>

\* lines 645-663: refresh of the rate limit after the acquire; on error the
\* function returns with no Release (the deferred one is not registered yet)
RateLimitHead(s) ==
    /\ pc[s] = "rlhead"
    /\ \/ /\ Return(s, "err")
          /\ UNCHANGED semVars
       \/ \E r \in 0..MaxRemain : RateLimitLoop(s, r)
    /\ UNCHANGED <<cfgVars, headSame, mainPc, mainI, ctxDone, fires, skips>>

\* lines 664-668: select on ctx.Done() and time.After(s.RateLimit.Retry)
RateLimitSleep(s) ==
    /\ pc[s] = "sleep"
    /\ \/ /\ ctxDone
          /\ Return(s, "ErrCanceled")
       \/ /\ pc' = [pc EXCEPT ![s] = "reacquire"]
          /\ UNCHANGED <<refVars, callerVars>>
    /\ UNCHANGED <<cfgVars, headSame, mainPc, mainI, ctxDone, semVars, fires, skips>>

\* line 669: sem.Acquire(ctx, 1) after the pause
Reacquire(s) ==
    /\ pc[s] = "reacquire"
    /\ SemAcquire(s)
    /\ pc' = [pc EXCEPT ![s] = "rlhead2"]
    /\ UNCHANGED <<cfgVars, headSame, mainPc, mainI, ctxDone, panicked, releasedUnheld, fires, skips,
                   callerVars, tgtExists, tgtMatches, tgtDiffers, rlSet, remain, tries, backedUp,
                   backupFailed>>

\* lines 670-680: the re-check of the limit inside the loop; on error the
\* permit is released before the return
RateLimitRecheck(s) ==
    /\ pc[s] = "rlhead2"
    /\ \/ /\ SemRelease(s)
          /\ Return(s, "err")
       \/ \E r \in 0..MaxRemain : RateLimitLoop(s, r)
    /\ UNCHANGED <<cfgVars, headSame, mainPc, mainI, ctxDone, fires, skips>>

\* lines 687-697: defer sem.Release(1); the non-blocking test of ctx.Done();
\* the test whether a backup is due
CtxCheck(s) ==
    /\ pc[s] = "ctxcheck"
    /\ IF ctxDone
       THEN /\ SemRelease(s)
            /\ Return(s, "ErrCanceled")
       ELSE /\ pc' = [pc EXCEPT ![s] = IF BackupDue(s) THEN "backup" ELSE "copy"]
            /\ UNCHANGED <<semVars, refVars, callerVars>>
    /\ UNCHANGED <<cfgVars, headSame, mainPc, mainI, ctxDone, fires, skips>>

\* BackupCopy with the error of the backup ImageCopy returned to the caller
BackupCopyErrReturned(s, ok) ==
    IF ok
    THEN /\ backedUp' = [backedUp EXCEPT ![s] = TRUE]
         /\ backupFailed' = [backupFailed EXCEPT ![s] = FALSE]
         /\ pc' = [pc EXCEPT ![s] = "copy"]
         /\ UNCHANGED <<semVars, tgtExists, tgtMatches, tgtDiffers, rlSet, remain,
                        held, tries, callerVars>>
    ELSE /\ SemRelease(s)
         /\ Return(s, "errBackup")

\* lines 736-745: err = rc.ImageCopy(ctx, tgt, backupRef); an error is logged
\* with Warn and the function goes on to the copy of the source
BackupCopy(s, ok) ==
    /\ backedUp' = [backedUp EXCEPT ![s] = TRUE]
    /\ backupFailed' = [backupFailed EXCEPT ![s] = ~ok]
    /\ pc' = [pc EXCEPT ![s] = "copy"]
    /\ UNCHANGED <<semVars, tgtExists, tgtMatches, tgtDiffers, rlSet, remain,
                   held, tries, callerVars>>

\* lines 698-746: template expansion and parsing of the backup reference (an
\* error returns, the deferred Release runs), then the backup copy
Backup(s) ==
    /\ pc[s] = "backup"
    /\ \/ /\ SemRelease(s)
          /\ Return(s, "err")
       \/ \E ok \in BOOLEAN : BackupCopy(s, ok)
    /\ UNCHANGED <<cfgVars, headSame, mainPc, mainI, ctxDone, fires, skips>>

\* lines 748-773: rc.ImageCopy(ctx, src, tgt, opts...), then the deferred Release
ImageCopy(s) ==
    /\ pc[s] = "copy"
    /\ SemRelease(s)
    /\ \E e \in {"nil", "err"} : Return(s, e)
    /\ UNCHANGED <<cfgVars, headSame, mainPc, mainI, ctxDone, fires, skips>>

ProcessRef(s) ==
    \/ ManifestHeads(s)
    \/ Acquire(s)
    \/ RateLimitHead(s)
    \/ RateLimitSleep(s)
    \/ Reacquire(s)
    \/ RateLimitRecheck(s)
    \/ CtxCheck(s)
    \/ Backup(s)
    \/ ImageCopy(s)

\* ------------------------------------------------------- runOnce, runCheck

\* lines 175-197 and 270-277: the loop over conf.Sync starts step s, in a
\* goroutine (wg.Add(1)) when Parallel > 0 and inline otherwise
StartStep(s) ==
    /\ mainPc = "loop"
    /\ mainI = s
    /\ pc[s] = "idle"
    /\ Sequential => \A j \in Steps : j < s => pc[j] = "done"
    /\ pc' = [pc EXCEPT ![s] = "head"]
    /\ mainI' = s + 1
    /\ wg' = IF Sequential THEN wg ELSE wg + 1
    /\ UNCHANGED <<cfgVars, headSame, mainPc, ctxDone, semVars, refVars, fires, skips,
                   mainErr, jobChan, nRunning, ret>>

\* StepErrWrite without the assignment to mainErr
StepErrDropped(s) ==
    /\ pc[s] = "seterr"
    /\ pc' = [pc EXCEPT ![s] = "done"]
    /\ wg' = IF Sequential THEN wg ELSE wg - 1
    /\ UNCHANGED <<cfgVars, headSame, mainPc, mainI, ctxDone, semVars, refVars, fires, skips,
                   mainErr, jobChan, nRunning, ret>>

\* lines 184, 193, 274: mainErr = err, then the goroutine ends (wg.Done)
StepErrWrite(s) ==
    /\ pc[s] = "seterr"
    /\ mainErr' = ret[s]
    /\ pc' = [pc EXCEPT ![s] = "done"]
    /\ wg' = IF Sequential THEN wg ELSE wg - 1
    /\ UNCHANGED <<cfgVars, headSame, mainPc, mainI, ctxDone, semVars, refVars, fires, skips,
                   jobChan, nRunning, ret>>

\* lines 198-199 and 278: wg.Wait() and return mainErr
OnceReturn ==
    /\ mainPc = "loop"
    /\ mainI > MaxSteps
    /\ Sequential => \A j \in Steps : pc[j] = "done"
    /\ wg = 0
    /\ mainPc' = "returned"
    /\ UNCHANGED <<cfgVars, headSame, mainI, ctxDone, semVars, pc, refVars, callerVars, fires, skips>>

\* lines 165-172: the signal goroutine of runOnce calls cancel()
Interrupt ==
    /\ mode = "once"
    /\ ~ctxDone
    /\ ctxDone' = TRUE
    /\ UNCHANGED <<cfgVars, headSame, mainPc, mainI, semVars, pc, refVars, callerVars, fires, skips>>

\* --------------------------------------------------------------- runServer

\* a job chain without SkipIfStillRunning: no invocation is skipped
SkipNever(s) == FALSE

\* cron.SkipIfStillRunning (line 212): the wrapper of a job skips the
\* invocation when its token channel is empty
SkipIfStillRunning(s) == jobChan[s] = 0

\* lines 211-213, 227: the scheduler fires step s; the wrapped job either
\* takes the token and runs, or is skipped
CronFire(s) ==
    /\ mainPc = "cron"
    /\ fires < MaxFires
    /\ fires' = fires + 1
    /\ IF SkipIfStillRunning(s)
       THEN /\ skips' = skips + 1
            /\ UNCHANGED <<jobChan, nRunning, pc>>
       ELSE /\ skips' = skips
            /\ jobChan' = [jobChan EXCEPT ![s] = 0]
            /\ nRunning' = [nRunning EXCEPT ![s] = nRunning[s] + 1]
            /\ pc' = [pc EXCEPT ![s] = "jobstart"]
    /\ UNCHANGED <<cfgVars, headSame, mainPc, mainI, ctxDone, semVars, refVars, mainErr, wg, ret>>

\* lines 228-235: the job function logs, then wg.Add(1), then calls s.process
JobAdd(s) ==
    /\ pc[s] = "jobstart"
    /\ wg' = wg + 1
    /\ pc' = [pc EXCEPT ![s] = "head"]
    /\ UNCHANGED <<cfgVars, headSame, mainPc, mainI, ctxDone, semVars, refVars, fires, skips,
                   mainErr, jobChan, nRunning, ret>>

\* lines 252-255: the interrupt arrives and c.Stop() ends the scheduler
ServerStop ==
    /\ mainPc = "cron"
    /\ mainPc' = "stopped"
    /\ UNCHANGED <<cfgVars, headSame, mainI, ctxDone, semVars, pc, refVars, callerVars, fires, skips>>

\* line 256: cancel()
ServerCancel ==
    /\ mainPc = "stopped"
    /\ ctxDone' = TRUE
    /\ mainPc' = "waiting"
    /\ UNCHANGED <<cfgVars, headSame, mainI, semVars, pc, refVars, callerVars, fires, skips>>

\* ServerWait without the wg.Wait()
ServerReturnsAtOnce ==
    /\ mainPc = "waiting"
    /\ mainPc' = "waited"
    /\ UNCHANGED <<cfgVars, headSame, mainI, ctxDone, semVars, pc, refVars, callerVars, fires, skips>>

\* lines 257-258: wg.Wait() returns with the counter at zero
ServerWait ==
    /\ mainPc = "waiting"
    /\ wg = 0
    /\ mainPc' = "waited"
    /\ UNCHANGED <<cfgVars, headSame, mainI, ctxDone, semVars, pc, refVars, callerVars, fires, skips>>

\* line 259: return mainErr; the goroutines of the jobs run on until then
ServerReturn ==
    /\ mainPc = "waited"
    /\ mainPc' = "returned"
    /\ UNCHANGED <<cfgVars, headSame, mainI, ctxDone, semVars, pc, refVars, callerVars, fires, skips>>

\* -------------------------------------------------------------- filterTags

\* A string is a sequence of one-character strings; "" is <<>>.
\* The tags a registry lists (never empty) and the filters of the step.
Tags == { <<"a">>, <<"b">>, <<"a", "b">>, <<"b", "a">> }
Filters == { <<"a">>, <<".", "*">>, <<"a", "|", "b">>, <<"b", ".", "*">>, <<"(">> }

RECURSIVE SeqsUpTo(_, _)
SeqsUpTo(S, n) ==
    IF n = 0 THEN { <<>> }
    ELSE LET shorter == SeqsUpTo(S, n - 1)
         IN  shorter \cup { Append(q, x) : q \in { r \in shorter : Len(r) = n - 1 }, x \in S }

\* regexp.Compile("^" + filter + "$") fails: an unclosed group, or a
\* repetition operator with nothing to repeat (after "|") or stacked ("**")
CompileFails(filter) ==
    \E i \in DOMAIN filter :
        \/ filter[i] = "("
        \/ filter[i] = "*" /\ i > 1 /\ filter[i - 1] \in {"*", "|"}

\* the alternatives of a pattern, split at "|"
RECURSIVE Alternatives(_)
Alternatives(p) ==
    IF \A i \in DOMAIN p : p[i] # "|" THEN << p >>
    ELSE LET k == CHOOSE i \in DOMAIN p : p[i] = "|" /\ \A j \in 1..(i - 1) : p[j] # "|"
         IN  << SubSeq(p, 1, k - 1) >> \o Alternatives(SubSeq(p, k + 1, Len(p)))

\* the items of one alternative: a character or ".", possibly starred
RECURSIVE Items(_)
Items(alt) ==
    IF alt = <<>> THEN <<>>
    ELSE IF Len(alt) >= 2 /\ alt[2] = "*"
    THEN << [c |-> alt[1], star |-> TRUE] >> \o Items(SubSeq(alt, 3, Len(alt)))
    ELSE << [c |-> alt[1], star |-> FALSE] >> \o Items(Tail(alt))

CharMatches(c, x) == c = "." \/ c = x

\* the positions of t at which a match of the items can end when it starts
\* at one of the positions in from
RECURSIVE Ends(_, _, _)
Ends(items, t, from) ==
    IF items = <<>> THEN from
    ELSE LET it == Head(items)
             once == { q + 1 : q \in { r \in from : r < Len(t) /\ CharMatches(it.c, t[r + 1]) } }
             many == { q \in 0..Len(t) :
                         \E r \in from : r <= q /\ \A k \in (r + 1)..q : CharMatches(it.c, t[k]) }
         IN  Ends(Tail(items), t, IF it.star THEN many ELSE once)

\* exp.MatchString(t) for exp = "^" + filter + "$": the "^" belongs to the
\* first alternative and the "$" to the last, and the search is unanchored
MatchString(filter, t) ==
    LET alts == Alternatives(filter)
    IN  \E k \in DOMAIN alts :
            LET ends == Ends(Items(alts[k]), t, IF k = 1 THEN {0} ELSE 0..Len(t))
            IN  IF k = Len(alts) THEN Len(t) \in ends ELSE ends # {}

\* lines 781-791: the allow filters from the k-th on, applied to result
RECURSIVE ApplyAllow(_, _, _, _)
ApplyAllow(result, in, allow, k) ==
    IF k > Len(allow) THEN [result |-> result, err |-> FALSE]
    ELSE IF CompileFails(allow[k]) THEN [result |-> result, err |-> TRUE]
    ELSE ApplyAllow([i \in DOMAIN result |->
                        IF result[i] = <<>> /\ MatchString(allow[k], in[i])
                        THEN in[i] ELSE result[i]],
                    in, allow, k + 1)

\* ApplyDeny with the deny filters never applied
ApplyDenyNothing(result, deny, k) == [result |-> result, err |-> FALSE]

\* lines 799-809: the deny filters from the k-th on, applied to result
RECURSIVE ApplyDeny(_, _, _)
ApplyDeny(result, deny, k) ==
    IF k > Len(deny) THEN [result |-> result, err |-> FALSE]
    ELSE IF CompileFails(deny[k]) THEN [result |-> result, err |-> TRUE]
    ELSE ApplyDeny([i \in DOMAIN result |->
                        IF result[i] # <<>> /\ MatchString(deny[k], result[i])
                        THEN <<>> ELSE result[i]],
                   deny, k + 1)

\* Compress with a loop that stops one element early
CompressAllButLast(result) ==
    SelectSeq(SubSeq(result, 1, Len(result) - 1), LAMBDA x : x # <<>>)

\* lines 812-818: the result list without its empty elements
Compress(result) == SelectSeq(result, LAMBDA x : x # <<>>)

\* filterTags: out and err are what it returns, in is the caller's list after
\* the call (with no allow filter result is the caller's slice itself, and
\* the deny loop writes into it)
filterTags(in, allow, deny) ==
    LET aliased == Len(allow) = 0
        a == IF aliased THEN [result |-> in, err |-> FALSE]
             ELSE ApplyAllow([i \in DOMAIN in |-> <<>>], in, allow, 1)
        d == IF a.err THEN a ELSE ApplyDeny(a.result, deny, 1)
    IN  [out |-> IF d.err THEN d.result ELSE Compress(d.result),
         err |-> d.err,
         in  |-> IF aliased THEN d.result ELSE in]

InitFilter ==
    /\ fPhase = "init"
    /\ fIn \in SeqsUpTo(Tags, MaxTagList)
    /\ fIn0 = fIn
    /\ fAllow \in SeqsUpTo(Filters, MaxAllow)
    /\ fDeny \in SeqsUpTo(Filters, MaxDeny)
    /\ fOut = <<>>
    /\ fErr = FALSE
    /\ fCall2 = "none"
    /\ fOut2 = <<>>
    /\ fErr2 = FALSE
    /\ mode = "none"
    /\ mainPc = "returned"
    /\ parallel = 0
    /\ rateLimitMin = 0
    /\ backup = FALSE
    /\ InitSync
    /\ HttpOff

\* process, lines 389 and 467: sTagList, err := s.filterTags(sTagsList)
FilterCall ==
    /\ fPhase = "init"
    /\ LET r == filterTags(fIn, fAllow, fDeny)
       IN  /\ fOut' = r.out
           /\ fErr' = r.err
           /\ fIn' = r.in
    /\ fPhase' = "filtered"
    /\ UNCHANGED <<fIn0, fAllow, fDeny, fCall2, fOut2, fErr2>>

\* the returned list is filtered once more with the same filters
FilterAgain ==
    /\ fPhase = "filtered"
    /\ ~fErr
    /\ LET r == filterTags(fOut, fAllow, fDeny)
       IN  /\ fOut2' = r.out
           /\ fErr2' = r.err
    /\ fCall2' = "again"
    /\ fPhase' = "second"
    /\ UNCHANGED <<fIn, fIn0, fAllow, fDeny, fOut, fErr>>

\* the same tags are filtered with one more deny filter
FilterMoreDeny ==
    /\ fPhase = "filtered"
    /\ ~fErr
    /\ \E extra \in Filters :
          LET r == filterTags(fIn0, fAllow, Append(fDeny, extra))
          IN  /\ fOut2' = r.out
              /\ fErr2' = r.err
    /\ fCall2' = "moredeny"
    /\ fPhase' = "second"
    /\ UNCHANGED <<fIn, fIn0, fAllow, fDeny, fOut, fErr>>

NextFilter ==
    /\ \/ FilterCall
       \/ FilterAgain
       \/ FilterMoreDeny
    /\ UNCHANGED <<syncVars, httpVars, readVars, ociVars, cacheVars, lockVars, procVars>>

\* ------------------------------------------------- reghttp: Client.Do, Next

\* what one attempt can end in: a failure before the request is sent (no API
\* for the host, HEAD disabled, no request or body, lines 281-292, 342-351,
\* 371), an error of auth.UpdateRequest (386-390), an error of httpClient.Do
\* (430-435), or a response with a status code; "200nr" is a 2xx answer
\* without Content-Range to a request with a Range header (486-490)
Outcomes == {"apierr", "autherr", "neterr", "200", "200nr", "401a", "401r", "404", "429", "504",
             "503"}

\* the outcomes of a request that reached the host
Sent == Outcomes \ {"apierr", "autherr"}

\* what a host answers to the request of a body that is read
ReadOutcomes == {"200", "200nr", "503"}

\* hosts that always give the same answer
Scripted == {"200", "503", "429", "504"}

\* what the hosts answer in one behaviour: anything, or each candidate its one answer
AnswerProfiles ==
    { a \in [HostIds -> {{o} : o \in Scripted} \cup {Outcomes}] :
        \/ \A h \in HostIds : a[h] = Outcomes
        \/ \A h \in HostIds : a[h] # Outcomes }

\* backoffCur and backoffUntil as earlier requests can have left them: both
\* zero, or a count with the time set by the latest backoffSet (backoffSet
\* counts on over retryLimit when request after request fails)
PriorBackoff(hs, maxCur) ==
    \E p \in [hs -> {<<0, 0>>} \cup ((1..maxCur) \X (1..MaxUntil))] :
        /\ backoffCur = [h \in HostIds |-> IF h \in hs THEN p[h][1] ELSE 0]
        /\ backoffUntil = [h \in HostIds |-> IF h \in hs THEN p[h][2] ELSE 0]

\* NewClient with WithRetryLimit, WithDelay (delayMax is at least delayInit)
\* and WithConfigHosts, and one request to come: to a host with mirrors
\* that has not backed off yet, or to a host without mirrors in any state
InitHttp ==
    /\ hPc = "idle"
    /\ nMirrors \in 0..MaxMirrors
    /\ answers \in AnswerProfiles
    /\ answers[Upstream] = Outcomes => nMirrors <= MaxFreeMirrors
    /\ \A h \in HostIds : h > nMirrors => answers[h] = answers[Upstream]
    /\ priority \in [HostIds -> 0..MaxPriority]
    /\ \A h \in HostIds : h > nMirrors => priority[h] = 0
    /\ retryLimit \in 1..MaxRetryLimit
    /\ delayInit = 1
    /\ delayMax \in 1..MaxDelay
    /\ now = 2
    /\ PriorBackoff(IF nMirrors = 0 /\ answers[Upstream] = Outcomes THEN {Upstream} ELSE {},
                    MaxRetryLimit + 1)
    /\ InitReq
    /\ ReadOff
    /\ FilterOff
    /\ mode = "none"
    /\ mainPc = "returned"
    /\ parallel = 0
    /\ rateLimitMin = 0
    /\ backup = FALSE
    /\ InitSync

\* the hosts of a request in every state of backoff, for the order of line 248
InitSort ==
    /\ hPc = "idle"
    /\ nMirrors \in 0..MaxMirrors
    /\ answers = [h \in HostIds |-> Outcomes]
    /\ priority \in [HostIds -> 0..MaxPriority]
    /\ \A h \in HostIds : h > nMirrors => priority[h] = 0
    /\ retryLimit = 1
    /\ delayInit = 1
    /\ delayMax = 1
    /\ now = 2
    /\ PriorBackoff(0..nMirrors, 1)
    /\ InitReq
    /\ ReadOff
    /\ FilterOff
    /\ mode = "none"
    /\ mainPc = "returned"
    /\ parallel = 0
    /\ rateLimitMin = 0
    /\ backup = FALSE
    /\ InitSync

\* sortHostsCmp without the comparison of backoffUntil
sortHostsCmpNoBackoff(hs, i, j) ==
    IF priority[hs[i]] # priority[hs[j]]
    THEN priority[hs[i]] < priority[hs[j]]
    ELSE hs[i] # Upstream

\* lines 718-726: the less function sortHostsCmp returns, on positions i, j of hs
sortHostsCmp(hs, i, j) ==
    IF now < backoffUntil[hs[i]] \/ now < backoffUntil[hs[j]]
    THEN backoffUntil[hs[i]] < backoffUntil[hs[j]]
    ELSE IF priority[hs[i]] # priority[hs[j]]
    THEN priority[hs[i]] < priority[hs[j]]
    ELSE hs[i] # Upstream

Swap(hs, i, j) == [hs EXCEPT ![i] = hs[j], ![j] = hs[i]]

\* sort.Slice on a slice of at most 12 elements is an insertion sort:
\*   for i := a + 1; i < b; i++ { for j := i; j > a && less(j, j-1); j-- { swap(j, j-1) } }
RECURSIVE SiftDown(_, _)
SiftDown(hs, j) ==
    IF j > 1 /\ sortHostsCmp(hs, j, j - 1)
    THEN SiftDown(Swap(hs, j, j - 1), j - 1)
    ELSE hs

RECURSIVE InsertionSort(_, _)
InsertionSort(hs, i) ==
    IF i > Len(hs) THEN hs ELSE InsertionSort(SiftDown(hs, i), i + 1)

\* line 248: sort.Slice(hosts, sortHostsCmp(hosts, reqHost.config.Name))
SortSlice(hs) == InsertionSort(hs, 2)

\* lines 241-247: the mirrors in the order of the configuration, then the host itself
Candidates(nm) ==
    IF nm THEN <<Upstream>> ELSE [i \in 1..(nMirrors + 1) |-> IF i <= nMirrors THEN i ELSE Upstream]

\* RemoveAt that leaves the list as it is
RemoveNone(hs, i) == hs

\* line 511: hosts = append(hosts[:curHost], hosts[curHost+1:]...)
RemoveAt(hs, i) == [k \in 1..(Len(hs) - 1) |-> IF k < i THEN hs[k] ELSE hs[k + 1]]

\* a client that never resumes with a Range header
RangeNeverSent == FALSE

\* lines 367-369: the request carries a Range header that resumes the body
RangeSent == readCur > 0 /\ readMax > 0

\* Classify with a backoff on 404
Classify404BacksOff(o) ==
    CASE o = "404" -> [backoff |-> TRUE, dropHost |-> TRUE, retryHost |-> FALSE, err |-> "ErrNotFound"]
      [] o = "200" -> [backoff |-> FALSE, dropHost |-> FALSE, retryHost |-> FALSE, err |-> "nil"]
      [] o = "401a" -> [backoff |-> FALSE, dropHost |-> FALSE, retryHost |-> TRUE, err |-> "ErrAuthRequired"]
      [] OTHER -> [backoff |-> TRUE, dropHost |-> TRUE, retryHost |-> FALSE, err |-> "ErrHTTPStatus"]

\* lines 279-491: the flags the closure sets and the error it returns
Classify(o) ==
    CASE o = "apierr"  -> [backoff |-> FALSE, dropHost |-> TRUE,  retryHost |-> FALSE, err |-> "ErrAPINotFound"]
      [] o = "autherr" -> [backoff |-> TRUE,  dropHost |-> FALSE, retryHost |-> FALSE, err |-> "ErrAuth"]
      [] o = "neterr"  -> [backoff |-> TRUE,  dropHost |-> FALSE, retryHost |-> FALSE, err |-> "ErrNet"]
      [] o = "200"     -> [backoff |-> FALSE, dropHost |-> FALSE, retryHost |-> FALSE, err |-> "nil"]
      [] o = "200nr"   -> [backoff |-> FALSE, dropHost |-> TRUE,  retryHost |-> FALSE, err |-> "ErrRangeNotSupported"]
      [] o = "401a"    -> [backoff |-> FALSE, dropHost |-> FALSE, retryHost |-> TRUE,  err |-> "ErrAuthRequired"]
      [] o = "401r"    -> [backoff |-> TRUE,  dropHost |-> TRUE,  retryHost |-> FALSE, err |-> "ErrAuth"]
      [] o = "404"     -> [backoff |-> FALSE, dropHost |-> TRUE,  retryHost |-> FALSE, err |-> "ErrNotFound"]
      [] o = "429"     -> [backoff |-> TRUE,  dropHost |-> FALSE, retryHost |-> FALSE, err |-> "ErrRateLimit"]
      [] o = "504"     -> [backoff |-> TRUE,  dropHost |-> FALSE, retryHost |-> FALSE, err |-> "ErrHTTPStatus"]
      [] o = "503"     -> [backoff |-> TRUE,  dropHost |-> TRUE,  retryHost |-> FALSE, err |-> "ErrHTTPStatus"]

\* a value of type time.Duration: the low DurationBits bits, in two's complement
Wrap(x) ==
    LET m == x % (2 ^ DurationBits)
    IN  IF m >= 2 ^ (DurationBits - 1) THEN m - 2 ^ DurationBits ELSE m

\* line 604, x << n on time.Duration: the bits shifted out are lost, and a
\* count of the width or more gives 0
Shl(x, n) == IF n >= DurationBits THEN 0 ELSE Wrap(x * (2 ^ n))

\* lines 604-608: sleepTime := c.delayInit << ch.backoffCur, limited to
\* c.delayMax; n is ch.backoffCur after the increment of line 602
ExpDelay(n) ==
    LET sleepTime == Shl(delayInit, n)
    IN  IF sleepTime > delayMax THEN delayMax ELSE sleepTime

\* SleepTime where a Retry-After above delayMax is taken as it is
SleepTimeRetryAfterUncapped(n, ra) ==
    IF ra # 0 /\ ra > ExpDelay(n) THEN ra ELSE ExpDelay(n)

\* lines 604-618: the delay of backoffSet, ra the Retry-After header in seconds
SleepTime(n, ra) ==
    IF ra # 0
    THEN IF ra > delayMax THEN delayMax
         ELSE IF ra > ExpDelay(n) THEN ra
         ELSE ExpDelay(n)
    ELSE ExpDelay(n)

\* backoffClear without lines 586-588, which bring a backoffCur above
\* retryLimit down to retryLimit
backoffClearNoClamp(h) ==
    LET cur == backoffCur[h]
        nxt == IF cur > 0 THEN cur - 1 ELSE cur
    IN  /\ backoffCur' = [backoffCur EXCEPT ![h] = nxt]
        /\ backoffUntil' = IF cur > 0 /\ nxt = 0
                           THEN [backoffUntil EXCEPT ![h] = 0]
                           ELSE backoffUntil

\* lines 581-595: backoffClear on the host of the attempt
backoffClear(h) ==
    LET cur == IF backoffCur[h] > retryLimit THEN retryLimit ELSE backoffCur[h]
    IN  IF cur > 0
        THEN /\ backoffCur' = [backoffCur EXCEPT ![h] = cur - 1]
             /\ backoffUntil' = [backoffUntil EXCEPT ![h] = IF cur - 1 = 0 THEN 0 ELSE @]
        ELSE /\ backoffCur' = [backoffCur EXCEPT ![h] = cur]
             /\ UNCHANGED backoffUntil

\* lines 597-620: backoffSet on the host of the attempt at time t, ra the
\* Retry-After header of resp.resp
backoffSet(h, t, ra) ==
    /\ backoffCur' = [backoffCur EXCEPT ![h] = backoffCur[h] + 1]
    /\ backoffUntil' = [backoffUntil EXCEPT ![h] = t + SleepTime(backoffCur[h] + 1, ra)]

\* BackoffLimit that lets a host reach retryLimit and drops it one backoff later
BackoffLimitLate(h) == backoffCur[h] + 1 > retryLimit

\* lines 622-626: backoffSet returns ErrBackoffLimit
BackoffLimit(h) == backoffCur[h] + 1 >= retryLimit

\* lines 492-495 and 581-595: the attempt succeeded, Next returns nil
Succeed(h) ==
    /\ backoffClear(h)
    /\ hPc' = "returned"
    /\ hRet' = "nil"
    /\ UNCHANGED <<hosts, curHost>>

\* Fail without the test of retryHost at line 512
FailIgnoresRetryHost(h, t, c, ra) ==
    LET set == c.backoff /\ ~ignoreErr
        drop == c.dropHost \/ (c.backoff /\ ignoreErr) \/ (set /\ BackoffLimit(h))
        left == IF drop THEN RemoveAt(hosts, curHost) ELSE hosts
        cur == IF drop THEN curHost ELSE curHost + 1
    IN  /\ IF set THEN backoffSet(h, t, ra) ELSE UNCHANGED <<backoffCur, backoffUntil>>
        /\ hosts' = left
        /\ curHost' = IF cur > Len(left) THEN 1 ELSE cur
        /\ IF left = <<>>
           THEN hPc' = "returned" /\ hRet' = c.err
           ELSE hPc' = "loop" /\ hRet' = hRet

\* lines 497-515 and the head of the next iteration (255-263): backoff, drop
\* of the host or step to the next one; with no host left Next returns err
Fail(h, t, c, ra) ==
    LET set == c.backoff /\ ~ignoreErr
        drop == c.dropHost \/ (c.backoff /\ ignoreErr) \/ (set /\ BackoffLimit(h))
        left == IF drop THEN RemoveAt(hosts, curHost) ELSE hosts
        cur == IF drop \/ c.retryHost THEN curHost ELSE curHost + 1
    IN  /\ IF set THEN backoffSet(h, t, ra) ELSE UNCHANGED <<backoffCur, backoffUntil>>
        /\ hosts' = left
        /\ curHost' = IF cur > Len(left) THEN 1 ELSE cur
        /\ IF left = <<>>
           THEN hPc' = "returned" /\ hRet' = c.err
           ELSE hPc' = "loop" /\ hRet' = hRet

\* one pass of the closure of lines 279-491 for the host hosts[curHost] at
\* time t with outcome o, and what the loop does with its result
Attempt(t, o, ra) ==
    LET h == hosts[curHost]
        c == Classify(o)
        hdr == IF o \in Sent THEN (IF o = "neterr" THEN 0 ELSE ra) ELSE respRA
    IN  /\ o \in answers[h]
        /\ o = "401a" => nAuth < MaxAuth
        /\ o = "200nr" => RangeSent
        /\ now' = t
        /\ mirror' = h
        /\ respRA' = hdr
        /\ lastOut' = o
        /\ contacts' = IF o \in Sent THEN [contacts EXCEPT ![h] = @ + 1] ELSE contacts
        /\ nAuth' = IF o = "401a" THEN nAuth + 1 ELSE nAuth
        /\ hFresh' = FALSE
        /\ IF o = "200" THEN Succeed(h) ELSE Fail(h, t, c, hdr)
        /\ UNCHANGED <<clientVars, noMirrors, ignoreErr, hCtxDone, hClean>>

\* the outcomes an attempt can have and the Retry-After header of its response
Results ==
    { <<o, ra>> \in Outcomes \X (0..MaxRetryAfter) :
        ra # 0 => o = "429" }

\* Next returns e without an attempt
HttpReturn(e) ==
    /\ hPc' = "returned"
    /\ hRet' = e
    /\ hFresh' = FALSE
    /\ UNCHANGED <<clientVars, now, backoffCur, backoffUntil, noMirrors, ignoreErr, hosts,
                   curHost, mirror, respRA, hCtxDone, lastOut, contacts, hClean,
                   nAuth>>

\* lines 222-248: Client.Do builds the list of candidates and sorts it
HttpDo ==
    /\ hPc = "idle"
    /\ \E nm \in BOOLEAN, ig \in BOOLEAN :
          /\ nm => nMirrors > 0
          /\ noMirrors' = nm
          /\ ignoreErr' = ig
          /\ hosts' = SortSlice(Candidates(nm))
          /\ hClean' = \A i \in 1..Len(Candidates(nm)) :
                          /\ backoffCur[Candidates(nm)[i]] = 0
                          /\ backoffUntil[Candidates(nm)[i]] = 0
    /\ hPc' = "loop"
    /\ curHost' = 1
    /\ mirror' = Upstream
    /\ respRA' = 0
    /\ hCtxDone' = FALSE
    /\ hRet' = "nil"
    /\ lastOut' = "none"
    /\ contacts' = [h \in HostIds |-> 0]
    /\ hFresh' = TRUE
    /\ nAuth' = 0
    /\ UNCHANGED <<clientVars, now, backoffCur, backoffUntil>>

\* lines 264-339: the test of the context, then either the attempt at once or
\* the wait for the host's backoff (a failure of lines 281-292 comes before it)
HttpLoop ==
    /\ hPc = "loop"
    /\ IF hCtxDone
       THEN HttpReturn("ctxErr")
       ELSE IF backoffUntil[hosts[curHost]] > now
       THEN \/ Attempt(now, "apierr", 0)
            \/ /\ hPc' = "sleep"
               /\ mirror' = hosts[curHost]
               /\ hFresh' = FALSE
               /\ UNCHANGED <<clientVars, now, backoffCur, backoffUntil, noMirrors, ignoreErr,
                              hosts, curHost, respRA, hCtxDone, hRet, lastOut, contacts,
                              hClean, nAuth>>
       ELSE \E r \in Results : Attempt(now, r[1], r[2])

\* the sleep of lines 334-338 as a plain time.Sleep(sleepTime), without the
\* case for resp.ctx.Done()
HttpSleepIgnoresCancel ==
    /\ hPc = "sleep"
    /\ \E r \in Results : Attempt(backoffUntil[hosts[curHost]], r[1], r[2])

\* lines 334-338: select on resp.ctx.Done() and time.After(sleepTime), then
\* the rest of the attempt; a context cancelled during the sleep is the only
\* ready case of the select, the timer is ready when the sleep ran to its end.
\* The return of line 336 leaves the closure of line 279 with
\* types.ErrCanceled: no flag is set, the loop moves to the next candidate
\* (lines 510-514) and its head finds the context done
HttpSleep ==
    /\ hPc = "sleep"
    /\ IF hCtxDone
       THEN /\ hPc' = "loop"
            /\ curHost' = IF curHost + 1 > Len(hosts) THEN 1 ELSE curHost + 1
            /\ UNCHANGED <<clientVars, now, backoffCur, backoffUntil, noMirrors, ignoreErr,
                           hosts, mirror, respRA, hCtxDone, hRet, lastOut, contacts, hClean,
                           hFresh, nAuth>>
       ELSE \E r \in Results : Attempt(backoffUntil[hosts[curHost]], r[1], r[2])

\* the caller cancels resp.ctx
HttpCancel ==
    /\ hPc \in {"loop", "sleep"}
    /\ ~hCtxDone
    /\ hCtxDone' = TRUE
    /\ UNCHANGED <<hPc, clientVars, now, backoffCur, backoffUntil, noMirrors, ignoreErr, hosts,
                   curHost, mirror, respRA, hRet, lastOut, contacts, hClean, hFresh,
                   nAuth>>

NextHttp ==
    /\ \/ HttpDo
       \/ HttpLoop
       \/ HttpSleep
       \/ HttpCancel
    /\ UNCHANGED <<syncVars, filterVars, readVars, ociVars, cacheVars, lockVars, procVars>>

NextSort ==
    /\ HttpDo
    /\ UNCHANGED <<syncVars, filterVars, readVars, ociVars, cacheVars, lockVars, procVars>>

\* -------------------------------------------------- reghttp: clientResp.Read

\* the object the hosts serve; byte i of it is written i
Object == [i \in 1..size |-> i]

\* a request for an object whose body the caller reads, at a client whose
\* hosts have not backed off
InitRead ==
    /\ hPc = "idle"
    /\ nMirrors \in 0..MaxReadMirrors
    /\ answers = [h \in HostIds |-> ReadOutcomes]
    /\ priority = [h \in HostIds |-> 0]
    /\ retryLimit \in 1..MaxRetryLimit
    /\ delayInit = 1
    /\ delayMax = 1
    /\ now = 2
    /\ backoffCur = [h \in HostIds |-> 0]
    /\ backoffUntil = [h \in HostIds |-> 0]
    /\ InitReq
    /\ InitBody("new")
    /\ OciOff
    /\ method \in {"GET", "HEAD"}
    /\ digest \in {"", "match", "other"}
    /\ size \in 1..MaxSize
    /\ FilterOff
    /\ mode = "none"
    /\ mainPc = "returned"
    /\ parallel = 0
    /\ rateLimitMin = 0
    /\ backup = FALSE
    /\ InitSync

\* lines 475-490: a 2xx response becomes resp.resp; its body holds the bytes
\* of the object from the first byte of the Range header on, whole or cut off
\* (a HEAD response has none), and readMax is taken from Content-Length when
\* nothing was read before
OpenBody ==
    LET from == IF RangeSent THEN readCur ELSE 0
    IN  \E cl \in BOOLEAN, k \in from..size, e \in {"EOF", "ErrUnexpectedEOF"} :
          /\ method = "HEAD" => k = from
          /\ method # "HEAD" /\ k < size => resumes < MaxResume
          /\ k = size \/ method = "HEAD" => e = "EOF"
          /\ body' = [j \in 1..(k - from) |-> Object[from + j]]
          /\ bodyEnd' = e
          /\ readMax' = IF readCur = 0 /\ readMax = 0 /\ cl THEN size ELSE readMax

\* what a step of Next does to the response: the Range header of a request
\* that was sent (367-369), the body of a 2xx response, and the return of
\* Next to the Read that called it (541-552)
AfterAttempt ==
    /\ range' = IF contacts' # contacts
                THEN (IF RangeSent THEN <<readCur, readMax>> ELSE <<>>)
                ELSE range
    /\ IF hPc' = "returned" /\ hRet' = "nil"
       THEN /\ OpenBody
            /\ rPc' = "open"
            /\ rErr' = IF rPc = "next" THEN "nil" ELSE rErr
            /\ pendErr' = "none"
            /\ UNCHANGED done
       ELSE IF hPc' = "returned"
       THEN /\ rPc' = IF rPc = "next" THEN "open" ELSE "failed"
            /\ done' = (rPc = "next" \/ done)
            /\ rErr' = IF rPc = "next" THEN pendErr ELSE rErr
            /\ pendErr' = "none"
            /\ UNCHANGED <<body, bodyEnd, readMax>>
       ELSE UNCHANGED <<rPc, done, rErr, pendErr, body, bodyEnd, readMax>>
    /\ hasResp' = IF contacts' # contacts THEN lastOut' # "neterr" ELSE hasResp
    /\ UNCHANGED <<method, digest, size, readCur, got, hashed, resumes, closed>>

\* line 556: the digest of the bytes written to the digester is the expected one
DigestMatches(bytes) == digest = "match" /\ bytes = Object

\* lines 533-534 and 555-570: the read is done with readCur at n; the
\* digest is validated and the reader's error e is returned
EndOfBody(n, e) ==
    /\ done' = TRUE
    /\ rErr' = IF method # "HEAD" /\ digest # "" /\ ~DigestMatches(hashed')
               THEN "ErrDigestMismatch"
               ELSE e
    /\ UNCHANGED <<rPc, pendErr, resumes, httpVars>>

\* lines 532-568: the reader returned io.EOF or io.ErrUnexpectedEOF with
\* readCur at n
ReaderEnds(n, e) ==
    IF method = "HEAD" \/ n >= readMax
    THEN EndOfBody(n, e)
    ELSE /\ backoffSet(mirror, now, respRA)
         /\ rPc' = "next"
         /\ pendErr' = e
         /\ resumes' = resumes + 1
         /\ UNCHANGED <<done, rErr, hPc, clientVars, now, noMirrors, ignoreErr, hosts, curHost,
                        mirror, respRA, hCtxDone, hRet, lastOut, contacts, hClean, hFresh,
                        nAuth>>

\* lines 522-571: one call of Read up to its return or its call of resp.Next();
\* a response that is done gives io.EOF and one without an HTTP response
\* ErrNotFound; resp.reader is set by a 2xx response only (line 476), so that
\* line 530 panics on the response of a Do that failed after a host answered;
\* otherwise the reader gives i bytes and, with the last of them or after
\* them, its error
ReadCall ==
    /\ rPc \in {"open", "failed"}
    /\ hPc = "returned"
    /\ IF done
       THEN /\ rErr' = "EOF"
            /\ UNCHANGED <<rPc, readCur, body, got, hashed, done, pendErr, resumes, httpVars>>
       ELSE IF ~hasResp
       THEN /\ rErr' = "ErrNotFound"
            /\ UNCHANGED <<rPc, readCur, body, got, hashed, done, pendErr, resumes, httpVars>>
       ELSE IF rPc = "failed"
       THEN /\ rErr' = "panic"
            /\ rPc' = "panicked"
            /\ UNCHANGED <<readCur, body, got, hashed, done, pendErr, resumes, httpVars>>
       ELSE \E i \in 0..Len(body), end \in BOOLEAN :
              /\ end => i = Len(body)
              /\ i = 0 => end
              /\ got' = got \o SubSeq(body, 1, i)
              /\ hashed' = hashed \o SubSeq(body, 1, i)
              /\ readCur' = readCur + i
              /\ body' = SubSeq(body, i + 1, Len(body))
              /\ IF end
                 THEN ReaderEnds(readCur + i, bodyEnd)
                 ELSE /\ rErr' = "nil"
                      /\ UNCHANGED <<rPc, done, pendErr, resumes, httpVars>>
    /\ UNCHANGED <<method, digest, size, readMax, bodyEnd, range, hasResp, closed>>

\* a Close that leaves the response open to further reads
ReadCloseKeepsOpen ==
    /\ rPc \in {"open", "failed"}
    /\ hPc = "returned"
    /\ closed' = TRUE
    /\ UNCHANGED <<rPc, method, digest, size, readCur, readMax, body, bodyEnd, range, got,
                   hashed, done, rErr, pendErr, resumes, hasResp, httpVars>>

\* lines 573-579: Close between two calls of Read; a response without an
\* HTTP response is left as it is (ErrNotFound), any other is done
ReadClose ==
    /\ rPc \in {"open", "failed"}
    /\ hPc = "returned"
    /\ closed' = TRUE
    /\ done' = (hasResp \/ done)
    /\ UNCHANGED <<rPc, method, digest, size, readCur, readMax, body, bodyEnd, range, got,
                   hashed, rErr, pendErr, resumes, hasResp, httpVars>>

\* lines 234-250 in the call of line 542: Next builds and sorts its list of
\* candidates anew
ReadNext ==
    /\ rPc = "next"
    /\ hPc = "returned"
    /\ hPc' = "loop"
    /\ hosts' = SortSlice(Candidates(noMirrors))
    /\ curHost' = 1
    /\ hRet' = "nil"
    /\ hFresh' = TRUE
    /\ UNCHANGED <<clientVars, now, backoffCur, backoffUntil, noMirrors, ignoreErr, mirror,
                   respRA, hCtxDone, lastOut, contacts, hClean, nAuth>>
    /\ UNCHANGED readVars

NextRead ==
    /\ \/ HttpDo /\ UNCHANGED readVars
       \/ HttpLoop /\ AfterAttempt
       \/ HttpSleep /\ AfterAttempt
       \/ HttpCancel /\ UNCHANGED readVars
       \/ ReadCall
       \/ ReadClose
       \/ ReadNext
    /\ UNCHANGED <<syncVars, filterVars, ociVars, cacheVars, lockVars, procVars>>

\* ------------------------------------------------------ ocidir: manifests

\* tags of references; a reference without tag and digest stands for "latest"
OTags == {"a", "latest"}

\* the references r of the calls
ORefs == [tag : OTags \cup {""}, digest : ODigests \cup {0}]

\* an OCI directory before its first call, with or without index.json
InitOci ==
    /\ InitDir("idle")
    /\ InitWriter("off")
    /\ hasIndex \in BOOLEAN
    /\ InitCache("off")
    /\ InitLock(0) /\ ProcessOff
    /\ hPc = "off"
    /\ nMirrors = 0
    /\ answers = [h \in HostIds |-> {}]
    /\ priority = [h \in HostIds |-> 0]
    /\ retryLimit = 1
    /\ delayInit = 1
    /\ delayMax = 1
    /\ now = 1
    /\ backoffCur = [h \in HostIds |-> 0]
    /\ backoffUntil = [h \in HostIds |-> 0]
    /\ InitReq
    /\ InitBody("off")
    /\ method = "GET"
    /\ digest = ""
    /\ size = 0
    /\ FilterOff
    /\ mode = "none"
    /\ mainPc = "returned"
    /\ parallel = 0
    /\ rateLimitMin = 0
    /\ backup = FALSE
    /\ InitSync

\* lines 1163-1165, 1206-1208, 1233-1235: a reference without tag and digest
\* gets the tag "latest"
Latest(r) == IF r.digest = 0 /\ r.tag = "" THEN [r EXCEPT !.tag = "latest"] ELSE r

\* indexRefLookup: the position in ms of the entry of reference r, 0 when
\* there is none; the entry of a tag is the one with that ref.name
\* annotation, the entry of a reference without tag the one with its digest
indexRefLookup(ms, r) ==
    LET hit(i) == IF r.tag # "" THEN ms[i].tag = r.tag ELSE ms[i].digest = r.digest
        found == { i \in 1..Len(ms) : hit(i) }
    IN  IF found = {} THEN 0 ELSE CHOOSE i \in found : \A j \in found : i <= j

\* line 1138: append(index.Manifests[:i], index.Manifests[i+1:]...) on the
\* array arr that holds the slice of length m, for the position i counted from 1
ShiftLeft(arr, i, m) == [k \in 1..Len(arr) |-> IF k >= i /\ k < m THEN arr[k + 1] ELSE arr[k]]

\* lines 1135-1140: range runs over the positions of the slice as it was when
\* the loop began and reads each element from the array at its turn, while
\* index.Manifests gets shorter in the same array; the expression
\* index.Manifests[i+1:] panics when i+1 is above the length the slice has by then
RECURSIVE DeleteLoop(_, _, _, _)
DeleteLoop(arr, m, i, d) ==
    IF i > Len(arr)
    THEN [ms |-> SubSeq(arr, 1, m), panic |-> FALSE]
    ELSE IF arr[i].digest = d
    THEN IF i > m
         THEN [ms |-> SubSeq(arr, 1, m), panic |-> TRUE]
         ELSE DeleteLoop(ShiftLeft(arr, i, m), m - 1, i + 1, d)
    ELSE DeleteLoop(arr, m, i + 1, d)

\* the call returns e
OciReturn(e) ==
    /\ oPc' = "idle"
    /\ oRet' = e

\* a call begins: ManifestPut, ManifestDelete, ManifestGet or ManifestHead
\* with reference r; ManifestPut with manifest m and the child option c
OciCall ==
    /\ oPc = "idle"
    /\ \E op \in {"put", "delete", "get", "head"}, r \in ORefs, m \in ODigests, c \in BOOLEAN :
          /\ op # "put" => (m = 1 /\ ~c)
          /\ op = "put" /\ ~c => Len(index) < MaxIndex
          /\ oOp' = op
          /\ oRef' = r
          /\ oMan' = m
          /\ oChild' = c
    /\ oPc' = oOp'
    /\ oRet' = "nil"
    /\ oGot' = 0
    /\ index0' = index
    /\ blob0' = blob
    /\ seen' = <<>>
    /\ UNCHANGED <<oIndex, hasIndex, index, blob>>

\* ManifestDelete that removes the index entries of a reference without digest by tag
ManifestDeleteByTag ==
    /\ oPc = "delete"
    /\ OciReturn("nil")
    /\ hasIndex' = TRUE
    /\ index' = SelectSeq(index, LAMBDA e : e.tag # oRef.tag)
    /\ UNCHANGED <<oOp, oRef, oMan, oChild, oIndex, oGot, blob, index0, blob0, seen>>

\* lines 1125-1155: ManifestDelete
ManifestDelete ==
    /\ oPc = "delete"
    /\ IF oRef.digest = 0
       THEN OciReturn("ErrMissingDigest") /\ UNCHANGED <<hasIndex, index, blob>>
       ELSE IF ~hasIndex
       THEN OciReturn("errReadIndex") /\ UNCHANGED <<hasIndex, index, blob>>
       ELSE LET res == DeleteLoop(index, Len(index), 1, oRef.digest)
            IN  IF res.panic
                THEN oPc' = "panicked" /\ oRet' = "panic" /\ UNCHANGED <<hasIndex, index, blob>>
                ELSE /\ index' = res.ms
                     /\ UNCHANGED hasIndex
                     /\ IF blob[oRef.digest] = "absent"
                        THEN OciReturn("errRemove") /\ UNCHANGED blob
                        ELSE /\ OciReturn("nil")
                             /\ blob' = [blob EXCEPT ![oRef.digest] = "absent"]
    /\ UNCHANGED <<oOp, oRef, oMan, oChild, oIndex, oGot, index0, blob0, seen>>

\* lines 1158-1198: ManifestGet
ManifestGet ==
    /\ oPc = "get"
    /\ LET r == Latest(oRef)
           i == indexRefLookup(index, r)
           d == IF r.digest # 0 THEN r.digest ELSE IF i = 0 THEN 0 ELSE index[i].digest
       IN  IF ~hasIndex THEN OciReturn("errReadIndex") /\ oGot' = 0
           ELSE IF d = 0 THEN OciReturn("ErrNotFound") /\ oGot' = 0
           ELSE IF blob[d] = "absent" THEN OciReturn("errOpen") /\ oGot' = 0
           ELSE OciReturn("nil") /\ oGot' = d
    /\ UNCHANGED <<oOp, oRef, oMan, oChild, oIndex, hasIndex, index, blob, index0, blob0, seen>>

\* lines 1209-1216: the loop of ManifestHead over index.Manifests from
\* position i on; desc is the digest of the descriptor chosen so far (0: none)
RECURSIVE HeadLoop(_, _, _, _)
HeadLoop(ms, i, r, desc) ==
    IF i > Len(ms) THEN desc
    ELSE IF r.digest # 0 /\ ms[i].digest = r.digest THEN HeadLoop(ms, i + 1, r, ms[i].digest)
    ELSE IF ms[i].tag # "" /\ ms[i].tag = r.tag THEN ms[i].digest
    ELSE HeadLoop(ms, i + 1, r, desc)

\* lines 1201-1225: ManifestHead
ManifestHead ==
    /\ oPc = "head"
    /\ LET d == HeadLoop(index, 1, Latest(oRef), 0)
       IN  IF ~hasIndex THEN OciReturn("errReadIndex") /\ oGot' = 0
           ELSE IF d = 0 THEN OciReturn("ErrNotFound") /\ oGot' = 0
           ELSE OciReturn("nil") /\ oGot' = d
    /\ UNCHANGED <<oOp, oRef, oMan, oChild, oIndex, hasIndex, index, blob, index0, blob0, seen>>

\* lines 1229-1239: ManifestPut reads index.json, or starts from an empty
\* index when it cannot be read
PutReadIndex ==
    /\ oPc = "put"
    /\ oIndex' = IF hasIndex THEN index ELSE <<>>
    /\ oPc' = "create"
    /\ UNCHANGED <<oOp, oRef, oMan, oChild, oRet, oGot, hasIndex, index, blob, index0, blob0,
                   seen>>

\* line 1267: o.fs.Create(file) creates the blob file or truncates it
PutCreate ==
    /\ oPc = "create"
    /\ blob' = [blob EXCEPT ![oMan] = "empty"]
    /\ oPc' = "write"
    /\ UNCHANGED <<oOp, oRef, oMan, oChild, oIndex, oRet, oGot, hasIndex, index, index0, blob0,
                   seen>>

\* line 1272: fd.Write(b) brings the bytes into the file, at once or a part first
PutWrite ==
    /\ oPc = "write"
    /\ \/ blob[oMan] = "empty" /\ blob' = [blob EXCEPT ![oMan] = "partial"] /\ UNCHANGED oPc
       \/ blob' = [blob EXCEPT ![oMan] = "full"] /\ oPc' = "index"
    /\ UNCHANGED <<oOp, oRef, oMan, oChild, oIndex, oRet, oGot, hasIndex, index, index0, blob0,
                   seen>>

\* ManifestPut that adds an entry without looking for the one to replace
UpsertAppends(ms, r, d) == Append(ms, [tag |-> r.tag, digest |-> d])

\* lines 1240-1260 and 1279-1283: the descriptor of the manifest and its place in ms
Upsert(ms, r, d) ==
    LET ref == IF r.tag = "" THEN [r EXCEPT !.digest = d] ELSE r
        desc == [tag |-> r.tag, digest |-> d]
        i == indexRefLookup(ms, ref)
    IN  IF i # 0 THEN [ms EXCEPT ![i] = desc] ELSE Append(ms, desc)

\* ManifestPut that updates index.json for a child manifest too
PutIndexOfChild ==
    /\ oPc = "index"
    /\ index' = Upsert(oIndex, IF oChild THEN oRef ELSE Latest(oRef), oMan)
    /\ hasIndex' = TRUE
    /\ OciReturn("nil")
    /\ UNCHANGED <<oOp, oRef, oMan, oChild, oIndex, oGot, blob, index0, blob0, seen>>

\* lines 1277-1290: without the child option the entry is replaced or added
\* and index.json written
PutIndex ==
    /\ oPc = "index"
    /\ IF oChild
       THEN UNCHANGED <<hasIndex, index>>
       ELSE /\ index' = Upsert(oIndex, Latest(oRef), oMan)
            /\ hasIndex' = TRUE
    /\ OciReturn("nil")
    /\ UNCHANGED <<oOp, oRef, oMan, oChild, oIndex, oGot, blob, index0, blob0, seen>>

\* lines 1179-1188 in another goroutine or process: a reader opens the blob
\* file of a digest and reads all of it while a call is running
Reader ==
    /\ oPc \notin {"idle", "off", "panicked"}
    /\ \E d \in ODigests : seen' = <<d, blob[d]>>
    /\ UNCHANGED <<oPc, oOp, oRef, oMan, oChild, oIndex, oRet, oGot, hasIndex, index, blob,
                   index0, blob0>>

\* the calls of one goroutine on the directory
OciStep ==
    \/ OciCall
    \/ ManifestDelete
    \/ ManifestGet
    \/ ManifestHead
    \/ PutReadIndex
    \/ PutCreate
    \/ PutWrite
    \/ PutIndex

NextOci ==
    /\ OciStep
    /\ UNCHANGED putVars
    /\ UNCHANGED <<syncVars, filterVars, httpVars, readVars, cacheVars, lockVars, procVars>>

NextOciReader ==
    /\ OciStep \/ Reader
    /\ UNCHANGED putVars
    /\ UNCHANGED <<syncVars, filterVars, httpVars, readVars, cacheVars, lockVars, procVars>>

\* ------------------------------ ocidir: two ManifestPut at the same time

\* an OCI directory, with or without index.json, before two goroutines call
\* ManifestPut on it
InitOciPuts ==
    /\ InitDir("idle")
    /\ InitWriter("idle")
    /\ hasIndex \in BOOLEAN
    /\ InitCache("off")
    /\ InitLock(0) /\ ProcessOff
    /\ hPc = "off"
    /\ nMirrors = 0
    /\ answers = [h \in HostIds |-> {}]
    /\ priority = [h \in HostIds |-> 0]
    /\ retryLimit = 1
    /\ delayInit = 1
    /\ delayMax = 1
    /\ now = 1
    /\ backoffCur = [h \in HostIds |-> 0]
    /\ backoffUntil = [h \in HostIds |-> 0]
    /\ InitReq
    /\ InitBody("off")
    /\ method = "GET"
    /\ digest = ""
    /\ size = 0
    /\ FilterOff
    /\ mode = "none"
    /\ mainPc = "returned"
    /\ parallel = 0
    /\ rateLimitMin = 0
    /\ backup = FALSE
    /\ InitSync

\* the one call of the first goroutine: ManifestPut without the child
\* option, with a reference that has a tag or gets "latest"
PutCall ==
    /\ oOp = "none"
    /\ OciCall
    /\ oOp' = "put"
    /\ ~oChild'
    /\ Latest(oRef').tag # ""
    /\ UNCHANGED putVars

\* lines 1229-1235: the other goroutine calls ManifestPut without the child
\* option, with a reference that has a tag or gets "latest"
Put2Call ==
    /\ o2Pc = "idle"
    /\ \E r \in ORefs, m \in ODigests :
          /\ Latest(r).tag # ""
          /\ o2Ref' = Latest(r)
          /\ o2Man' = m
    /\ o2Pc' = "put"
    /\ UNCHANGED <<o2Index, dirVars>>

\* lines 1237-1240 in the other goroutine: readIndex, or an empty index
Put2ReadIndex ==
    /\ o2Pc = "put"
    /\ o2Index' = IF hasIndex THEN index ELSE <<>>
    /\ o2Pc' = "write"
    /\ UNCHANGED <<o2Ref, o2Man, dirVars>>

\* lines 1261-1275 in the other goroutine: the blob file is created and written
Put2Write ==
    /\ o2Pc = "write"
    /\ blob' = [blob EXCEPT ![o2Man] = "full"]
    /\ o2Pc' = "index"
    /\ UNCHANGED <<o2Ref, o2Man, o2Index, oPc, oOp, oRef, oMan, oChild, oIndex, oRet, oGot,
                   hasIndex, index, index0, blob0, seen>>

\* lines 1277-1290 in the other goroutine: the entry is replaced or added in
\* the index it read, and index.json written
Put2Index ==
    /\ o2Pc = "index"
    /\ index' = Upsert(o2Index, o2Ref, o2Man)
    /\ hasIndex' = TRUE
    /\ o2Pc' = "done"
    /\ UNCHANGED <<o2Ref, o2Man, o2Index, oPc, oOp, oRef, oMan, oChild, oIndex, oRet, oGot,
                   blob, index0, blob0, seen>>

NextOciPuts ==
    /\ \/ PutCall
       \/ PutReadIndex /\ UNCHANGED putVars
       \/ PutCreate /\ UNCHANGED putVars
       \/ PutWrite /\ UNCHANGED putVars
       \/ PutIndex /\ UNCHANGED putVars
       \/ Put2Call
       \/ Put2ReadIndex
       \/ Put2Write
       \/ Put2Index
    /\ UNCHANGED <<syncVars, filterVars, httpVars, readVars, cacheVars, lockVars, procVars>>

\* ---------------------------------------------- regsync: getPlatformDigest

\* workers of one regsync run before their first getPlatformDigest
InitPlatform ==
    /\ InitCache("idle")
    /\ InitLock(0) /\ ProcessOff
    /\ InitDir("off") /\ InitWriter("off")
    /\ hasIndex = FALSE
    /\ hPc = "off"
    /\ nMirrors = 0
    /\ answers = [h \in HostIds |-> {}]
    /\ priority = [h \in HostIds |-> 0]
    /\ retryLimit = 1
    /\ delayInit = 1
    /\ delayMax = 1
    /\ now = 1
    /\ backoffCur = [h \in HostIds |-> 0]
    /\ backoffUntil = [h \in HostIds |-> 0]
    /\ InitReq
    /\ InitBody("off")
    /\ method = "GET"
    /\ digest = ""
    /\ size = 0
    /\ FilterOff
    /\ mode = "none"
    /\ mainPc = "returned"
    /\ parallel = 0
    /\ rateLimitMin = 0
    /\ backup = FALSE
    /\ InitSync

\* lines 834-842: worker w calls getPlatformDigest for the index with digest
\* d; a platform that does not parse returns at once
PlatformCall(w) ==
    /\ gpPc[w] \in {"idle", "done"}
    /\ gpCalls[w] < MaxResolves
    /\ gpCalls' = [gpCalls EXCEPT ![w] = @ + 1]
    /\ \E d \in IndexDigests, parses \in BOOLEAN :
          /\ gpMan' = [gpMan EXCEPT ![w] = d]
          /\ gpPc' = [gpPc EXCEPT ![w] = IF parses THEN "lock" ELSE "done"]
          /\ gpRet' = [gpRet EXCEPT ![w] = IF parses THEN "nil" ELSE "errParse"]
    /\ UNCHANGED <<cacheMu, cacheManifests, nGets>>

\* CacheLock that calls rc.ManifestGet whatever the cache holds
CacheLockNoLookup(w) ==
    /\ gpPc[w] = "lock"
    /\ cacheMu = 0
    /\ cacheMu' = w
    /\ gpPc' = [gpPc EXCEPT ![w] = "get"]
    /\ nGets' = [nGets EXCEPT ![gpMan[w]] = @ + 1]
    /\ UNCHANGED <<gpMan, gpRet, gpCalls, cacheManifests>>

\* lines 844-846: Lock, the lookup in the cache and, for a digest that is
\* not in it, the call of rc.ManifestGet
CacheLock(w) ==
    /\ gpPc[w] = "lock"
    /\ cacheMu = 0
    /\ cacheMu' = w
    /\ IF gpMan[w] \in cacheManifests
       THEN gpPc' = [gpPc EXCEPT ![w] = "unlock"] /\ UNCHANGED nGets
       ELSE /\ gpPc' = [gpPc EXCEPT ![w] = "get"]
            /\ nGets' = [nGets EXCEPT ![gpMan[w]] = @ + 1]
    /\ UNCHANGED <<gpMan, gpRet, gpCalls, cacheManifests>>

\* lines 846-857: rc.ManifestGet returns; its error is returned after
\* Unlock, its manifest goes into the cache
CacheGet(w) ==
    /\ gpPc[w] = "get"
    /\ \E ok \in BOOLEAN :
          IF ok
          THEN /\ cacheManifests' = cacheManifests \cup {gpMan[w]}
               /\ gpPc' = [gpPc EXCEPT ![w] = "unlock"]
               /\ UNCHANGED <<cacheMu, gpRet>>
          ELSE /\ cacheMu' = 0
               /\ gpPc' = [gpPc EXCEPT ![w] = "done"]
               /\ gpRet' = [gpRet EXCEPT ![w] = "errGet"]
               /\ UNCHANGED cacheManifests
    /\ UNCHANGED <<gpMan, gpCalls, nGets>>

\* lines 858-874: Unlock, then the platform is looked up in the manifest
CacheUnlock(w) ==
    /\ gpPc[w] = "unlock"
    /\ cacheMu' = 0
    /\ gpPc' = [gpPc EXCEPT ![w] = "done"]
    /\ \E found \in BOOLEAN : gpRet' = [gpRet EXCEPT ![w] = IF found THEN "nil" ELSE "ErrNotFound"]
    /\ UNCHANGED <<gpMan, gpCalls, cacheManifests, nGets>>

NextPlatform ==
    /\ \E w \in Workers :
          \/ PlatformCall(w)
          \/ CacheLock(w)
          \/ CacheGet(w)
          \/ CacheUnlock(w)
    /\ UNCHANGED <<syncVars, filterVars, httpVars, readVars, ociVars, lockVars, procVars>>

\* ------------------------------- reghttp: requests that run at the same time

\* a client with one host, no mirrors, and its requests before their first
\* call of Next: several that run at the same time, or one that calls again
\* and again
InitBackoff ==
    /\ \E n \in 1..MaxRequests : InitLock(n)
    /\ ProcessOff
    /\ InitCache("off")
    /\ InitDir("off") /\ InitWriter("off")
    /\ hasIndex = FALSE
    /\ hPc = "off"
    /\ nMirrors = 0
    /\ answers = [h \in HostIds |-> {}]
    /\ priority = [h \in HostIds |-> 0]
    /\ retryLimit \in 1..MaxRetryLimit
    /\ delayInit = 1
    /\ delayMax \in 1..MaxDelay
    /\ now = 1
    /\ backoffCur = [h \in HostIds |-> 0]
    /\ backoffUntil = [h \in HostIds |-> 0]
    /\ InitReq
    /\ InitBody("off")
    /\ method = "GET"
    /\ digest = ""
    /\ size = 0
    /\ FilterOff
    /\ mode = "none"
    /\ mainPc = "returned"
    /\ parallel = 0
    /\ rateLimitMin = 0
    /\ backup = FALSE
    /\ InitSync

\* the calls of Next that are followed
CallLimit == IF qPc[MaxRequests] = "off" THEN MaxSerialCalls ELSE MaxCalls

\* another request holds c.mu and is about to store into the host's fields
Racing(r) == \E q \in Requests \ {r} : clientMu = q /\ qPc[q] = "write"

\* what a read of h.backoffUntil outside c.mu can give: the stored time, and
\* beside a store of another request (a data race on the three words of a
\* time.Time) any time up to the latest one a backoffSet can store
ReadUntil(r) ==
    {backoffUntil[Upstream]} \cup (IF Racing(r) THEN 0..(now + delayMax) ELSE {})

\* the access of request r to a field of its host, with c.mu as it is then
Access(r, field, write) ==
    access' = [req |-> r, field |-> field, write |-> write, locked |-> clientMu = r]

\* what the requests leave alone
ReqFrame ==
    UNCHANGED <<hPc, clientVars, noMirrors, ignoreErr, hosts, curHost, mirror, respRA,
                hCtxDone, hRet, lastOut, contacts, hClean, hFresh, nAuth>>

\* lines 234-248: Next begins; getHost takes and frees c.mu, and the list of
\* one host is sorted without a call of the comparison
ReqNext(r) ==
    /\ qPc[r] = "idle"
    /\ qCalls < CallLimit
    /\ clientMu = 0
    /\ qCalls' = qCalls + 1
    /\ qPc' = [qPc EXCEPT ![r] = "check"]
    /\ UNCHANGED <<qOp, qSeen, clientMu, access, now, backoffCur, backoffUntil>>
    /\ ReqFrame

\* lines 328-329: h.backoffUntil is read, c.mu is not taken
ReqCheck(r) ==
    /\ qPc[r] = "check"
    /\ Access(r, "backoffUntil", FALSE)
    /\ \E v \in ReadUntil(r) :
          /\ qSeen' = [qSeen EXCEPT ![r] = v]
          /\ qPc' = [qPc EXCEPT ![r] = IF v # 0 /\ v > now THEN "sleep" ELSE "send"]
    /\ UNCHANGED <<qOp, clientMu, qCalls, now, backoffCur, backoffUntil>>
    /\ ReqFrame

\* lines 329-339: the request sleeps until the time it read
ReqSleep(r) ==
    /\ qPc[r] = "sleep"
    /\ now' = IF qSeen[r] > now THEN qSeen[r] ELSE now
    /\ qPc' = [qPc EXCEPT ![r] = "send"]
    /\ UNCHANGED <<qOp, qSeen, clientMu, access, qCalls, backoffCur, backoffUntil>>
    /\ ReqFrame

\* lines 341-491: the attempt; it succeeds, or it fails with a backoff and
\* a Retry-After header ra (0: none)
ReqSend(r) ==
    /\ qPc[r] = "send"
    /\ \E ok \in BOOLEAN, ra \in {0, MaxRetryAfter} :
          qOp' = [qOp EXCEPT ![r] = IF ok THEN <<"clear">> ELSE <<"set", ra>>]
    /\ qPc' = [qPc EXCEPT ![r] = "lock"]
    /\ UNCHANGED <<qSeen, clientMu, access, qCalls, now, backoffCur, backoffUntil>>
    /\ ReqFrame

\* lines 583 and 599: c.mu.Lock()
ReqLock(r) ==
    /\ qPc[r] = "lock"
    /\ clientMu = 0
    /\ clientMu' = r
    /\ qPc' = [qPc EXCEPT ![r] = "write"]
    /\ UNCHANGED <<qOp, qSeen, access, qCalls, now, backoffCur, backoffUntil>>
    /\ ReqFrame

\* lines 585-594 and 601-626: backoffClear or backoffSet on the host
ReqWrite(r) ==
    /\ qPc[r] = "write"
    /\ Access(r, "backoffCur", TRUE)
    /\ IF qOp[r][1] = "clear"
       THEN /\ backoffClear(Upstream)
            /\ qOp' = [qOp EXCEPT ![r] = <<"ok">>]
       ELSE /\ backoffSet(Upstream, now, qOp[r][2])
            /\ qOp' = [qOp EXCEPT ![r] = IF BackoffLimit(Upstream) THEN <<"limit">>
                                          ELSE <<"retry">>]
    /\ qPc' = [qPc EXCEPT ![r] = "unlock"]
    /\ UNCHANGED <<qSeen, clientMu, qCalls, now>>
    /\ ReqFrame

\* the deferred c.mu.Unlock(); after backoffClear Next returns nil (lines
\* 492-495), after ErrBackoffLimit the only host is dropped and Next returns
\* the error (lines 255-259, 497-515), otherwise the host is tried again
ReqUnlock(r) ==
    /\ qPc[r] = "unlock"
    /\ clientMu' = 0
    /\ qPc' = [qPc EXCEPT ![r] = IF qOp[r][1] = "retry" THEN "check" ELSE "idle"]
    /\ UNCHANGED <<qOp, qSeen, access, qCalls, now, backoffCur, backoffUntil>>
    /\ ReqFrame

NextBackoff ==
    /\ \E r \in Requests :
          \/ ReqNext(r)
          \/ ReqCheck(r)
          \/ ReqSleep(r)
          \/ ReqSend(r)
          \/ ReqLock(r)
          \/ ReqWrite(r)
          \/ ReqUnlock(r)
    /\ UNCHANGED <<syncVars, filterVars, readVars, ociVars, cacheVars, procVars>>

\* ------------------------------------- regsync: process of a registry step

\* what the calls made for one repository give: ref.New fails, rc.TagList or
\* GetTags fails, filterTags fails, no tag passes the filters, or the tags
\* that pass with the result of processRef for each
RepoOutcomes ==
    { [kind |-> k, tags |-> <<>>] : k \in {"refErr", "tagListErr", "filterErr", "noTags"} }
    \cup { [kind |-> "tags", tags |-> t] :
             t \in SeqsUpTo({"ok", "fail"}, MaxRepoTags) \ { <<>> } }

\* lines 341-361 and 442-444: process of a step of type registry with the
\* repositories the source lists, or of type repository with its one
InitProcess ==
    /\ pPc = "repo"
    /\ pType \in {"registry", "repository"}
    /\ pRepos \in SeqsUpTo(RepoOutcomes, MaxRepos)
    /\ pType = "repository" => Len(pRepos) = 1
    /\ pI = 1
    /\ pJ = 1
    /\ retErr = "nil"
    /\ pFailed = FALSE
    /\ pRet = "nil"
    /\ InitLock(0)
    /\ InitCache("off")
    /\ InitDir("off") /\ InitWriter("off")
    /\ hasIndex = FALSE
    /\ hPc = "off"
    /\ nMirrors = 0
    /\ answers = [h \in HostIds |-> {}]
    /\ priority = [h \in HostIds |-> 0]
    /\ retryLimit = 1
    /\ delayInit = 1
    /\ delayMax = 1
    /\ now = 1
    /\ backoffCur = [h \in HostIds |-> 0]
    /\ backoffUntil = [h \in HostIds |-> 0]
    /\ InitReq
    /\ InitBody("off")
    /\ method = "GET"
    /\ digest = ""
    /\ size = 0
    /\ FilterOff
    /\ mode = "none"
    /\ mainPc = "returned"
    /\ parallel = 0
    /\ rateLimitMin = 0
    /\ backup = FALSE
    /\ InitSync

\* process returns e
ProcessReturn(e) ==
    /\ pPc' = "returned"
    /\ pRet' = e
    /\ UNCHANGED <<pType, pRepos, pI, pJ, retErr>>

\* the loop goes on to the next repository with e in retErr
NextRepo(e) ==
    /\ retErr' = e
    /\ pI' = pI + 1
    /\ pPc' = "repo"
    /\ UNCHANGED <<pType, pRepos, pJ, pRet>>

\* lines 361-419, type registry: one repository up to the loop over its
\* tags; line 409 stores err, which is nil after filterTags succeeded
ProcessRegistryRepo ==
    /\ pPc = "repo"
    /\ pType = "registry"
    /\ pI <= Len(pRepos)
    /\ LET k == pRepos[pI].kind
       IN  CASE k = "refErr" -> ProcessReturn("err") /\ pFailed' = TRUE
             [] k \in {"tagListErr", "filterErr"} -> NextRepo("err") /\ pFailed' = TRUE
             [] k = "noTags" -> NextRepo("nil") /\ UNCHANGED pFailed
             [] k = "tags" -> /\ pPc' = "tag"
                              /\ pJ' = 1
                              /\ UNCHANGED <<pType, pRepos, pI, retErr, pRet, pFailed>>

\* lines 442-493, type repository: the repository up to the loop over its
\* tags; every error returns, and so does an empty tag list, with nil
ProcessRepository ==
    /\ pPc = "repo"
    /\ pType = "repository"
    /\ pI <= Len(pRepos)
    /\ LET k == pRepos[pI].kind
       IN  CASE k \in {"refErr", "tagListErr", "filterErr"} ->
                    ProcessReturn("err") /\ pFailed' = TRUE
             [] k = "noTags" -> ProcessReturn("nil") /\ UNCHANGED pFailed
             [] k = "tags" -> /\ pPc' = "tag"
                              /\ pJ' = 1
                              /\ UNCHANGED <<pType, pRepos, pI, retErr, pRet, pFailed>>

\* lines 420-440 and 494-515: processRef for one tag, retErr = err when it
\* failed, rc.Close; after the last tag the next repository
ProcessTag ==
    /\ pPc = "tag"
    /\ LET tags == pRepos[pI].tags
           failed == tags[pJ] = "fail"
       IN  /\ retErr' = IF failed THEN "err" ELSE retErr
           /\ pFailed' = (pFailed \/ failed)
           /\ IF pJ < Len(tags)
              THEN pJ' = pJ + 1 /\ UNCHANGED <<pPc, pI>>
              ELSE pJ' = 1 /\ pPc' = "repo" /\ pI' = pI + 1
    /\ UNCHANGED <<pType, pRepos, pRet>>

\* line 549: return retErr
ProcessEnd ==
    /\ pPc = "repo"
    /\ pI > Len(pRepos)
    /\ ProcessReturn(retErr)
    /\ UNCHANGED pFailed

NextProcess ==
    /\ \/ ProcessRegistryRepo
       \/ ProcessRepository
       \/ ProcessTag
       \/ ProcessEnd
    /\ UNCHANGED <<syncVars, filterVars, httpVars, readVars, ociVars, cacheVars, lockVars>>

\* ---------------------------------------------------------- specifications

\* nothing runs after the command returned or the process panicked
Alive == mainPc # "returned" /\ ~panicked

Next ==
    /\ Alive
    /\ \/ \E s \in Steps : ProcessRef(s)
       \/ \E s \in Steps : StartStep(s)
       \/ \E s \in Steps : StepErrWrite(s)
       \/ OnceReturn
       \/ Interrupt
    /\ UNCHANGED <<filterVars, httpVars, readVars, ociVars, cacheVars, lockVars, procVars>>

NextServer ==
    /\ Alive
    /\ \/ \E s \in Steps : ProcessRef(s)
       \/ \E s \in Steps : CronFire(s)
       \/ \E s \in Steps : JobAdd(s)
       \/ ServerStop
       \/ ServerCancel
       \/ ServerWait
       \/ ServerReturn
    /\ UNCHANGED <<filterVars, httpVars, readVars, ociVars, cacheVars, lockVars, procVars>>

\* regsync once and regsync check
Spec == Init /\ [][Next]_vars

\* regsync server
SpecServer == InitServer /\ [][NextServer]_vars

\* filterTags on every tag list and filter lists within the bounds
SpecFilter == InitFilter /\ [][NextFilter]_vars

\* one request of a reghttp client
SpecHttp == InitHttp /\ [][NextHttp]_vars

\* one request of a reghttp client whose attempts and sleeps all come to an
\* end: the loop of Next goes on as long as it can
SpecHttpLive == SpecHttp /\ WF_httpVars(HttpLoop) /\ WF_httpVars(HttpSleep)

\* the candidate list of a request as Next sorts it
SpecSort == InitSort /\ [][NextSort]_vars

\* one request of a reghttp client and the reading of its response
SpecRead == InitRead /\ [][NextRead]_vars

\* calls on one OCI directory, one after the other
SpecOci == InitOci /\ [][NextOci]_vars

\* the same calls with readers of the blob files beside them
SpecOciReader == InitOci /\ [][NextOciReader]_vars

\* two goroutines that each call ManifestPut once on one OCI directory
SpecOciPuts == InitOciPuts /\ [][NextOciPuts]_vars

\* the workers of one regsync run resolving platforms
SpecPlatform == InitPlatform /\ [][NextPlatform]_vars

\* requests of one client to one host, at the same time and one after the other
SpecBackoff == InitBackoff /\ [][NextBackoff]_vars

\* process of a step of type registry or repository
SpecProcess == InitProcess /\ [][NextProcess]_vars

\* ------------------------------------------------------------------ claims

\* positions of processRef after the first sem.Acquire and before the Release
\* that ends the worker's hold (the pause and the reacquire are outside)
PastAcquire == {"rlhead", "rlhead2", "ctxcheck", "backup", "copy"}

\* C1: at every moment the number of processRef workers that are past the
\* semaphore acquire and have not yet released is at most `parallel`
\* (minimum 1), also when the context is cancelled while workers wait
C1_AtMostParallelPastAcquire ==
    Cardinality({ s \in Steps : pc[s] \in PastAcquire }) <= SemSize

\* C2: no Release runs in a worker that holds no permit, and once every
\* worker has returned all permits are free again
C2_PermitsReturnedExactlyOnce ==
    /\ ~releasedUnheld
    /\ (\A s \in Steps : pc[s] = "done") => semCur = 0

\* C3: a worker pausing for the rate limit holds no permit from the Release
\* to the reacquire, and a worker that copies holds a permit and, when it
\* paused, has seen a remaining count that is not below ratelimit.min
C3_NoPermitDuringPause ==
    \A s \in Steps :
        /\ pc[s] \in {"sleep", "reacquire"} => ~held[s]
        /\ pc[s] \in {"backup", "copy"} =>
              /\ held[s]
              /\ tries[s] > 0 => remain[s] >= rateLimitMin

\* C3 witness: with one permit, a worker copies while another one pauses
C3_Witness ==
    \E s \in Steps, u \in Steps :
        /\ s # u
        /\ SemSize = 1
        /\ ~ctxDone
        /\ pc[s] = "sleep"
        /\ pc[u] = "copy"
        /\ held[u]

\* C4: in server mode at most one run of a step executes at a time, and a
\* firing leaves the runs that are executing as they are (it starts no second
\* run of such a step and does not restart it)
C4_NoOverlappingRuns ==
    /\ [](\A s \in Steps : nRunning[s] <= 1)
    /\ [][fires' # fires =>
            \A s \in Steps : nRunning[s] = 1 => nRunning'[s] = 1 /\ pc'[s] = pc[s]]_vars

\* C4 witness: a firing was skipped while the run of a step executes process
C4_Witness ==
    \E s \in Steps :
        /\ skips > 0
        /\ nRunning[s] = 1
        /\ pc[s] \notin {"idle", "jobstart"}

\* C5 as stated: the contexts are cancelled only after the in-flight runs
\* have finished, so no run is in flight once the context is cancelled
C5_CancelAfterRunsFinished ==
    ctxDone => \A s \in Steps : pc[s] = "idle"

\* C5 amended: the scheduler is stopped before the context is cancelled, no
\* firing happens after the stop, and runServer returns only after the cancel
\* and after a wait that ended with the wait group at zero
C5_StopThenCancelThenWait ==
    /\ [](ctxDone => mainPc \in {"waiting", "waited", "returned"})
    /\ [](mainPc \in {"waited", "returned"} => ctxDone)
    /\ [][(mainPc = "waiting" /\ mainPc' # "waiting") => wg = 0]_vars
    /\ [][(mainPc' = "returned") => mainPc \in {"waited", "returned"}]_vars
    /\ [][mainPc # "cron" => fires' = fires]_vars

\* C5 witness: the context is cancelled and runServer waits for a run
C5_Witness ==
    /\ mainPc = "waiting"
    /\ ctxDone
    /\ wg > 0

\* the tag is allowed (no allow filter, or one matches) and not denied
Kept(t, allow, deny) ==
    /\ Len(allow) = 0 \/ \E i \in DOMAIN allow : MatchString(allow[i], t)
    /\ \A j \in DOMAIN deny : ~MatchString(deny[j], t)

\* C6: filterTags returns exactly the tags of the input that are allowed and
\* not denied, in the order of the input
C6_FilterExact ==
    (fPhase \in {"filtered", "second"} /\ ~fErr) =>
        fOut = SelectSeq(fIn0, LAMBDA t : Kept(t, fAllow, fDeny))

\* C6 witness: two allow filters and a deny filter keep a part of the list
C6_Witness ==
    /\ fPhase = "filtered"
    /\ ~fErr
    /\ Len(fAllow) = 2
    /\ Len(fDeny) > 0
    /\ fOut # <<>>
    /\ Len(fOut) < Len(fIn0)

\* a is b with some elements left out
RECURSIVE IsSubSeq(_, _)
IsSubSeq(a, b) ==
    IF a = <<>> THEN TRUE
    ELSE IF b = <<>> THEN FALSE
    ELSE IF Head(a) = Head(b) THEN IsSubSeq(Tail(a), Tail(b))
    ELSE IsSubSeq(a, Tail(b))

\* C7: filtering the returned list again with the same filters returns it
\* unchanged, and with one more deny filter the result has no tag that the
\* result without it lacks
C7_IdempotentAndMonotone ==
    /\ fCall2 = "again" => ~fErr2 /\ fOut2 = fOut
    /\ (fCall2 = "moredeny" /\ ~fErr2) => IsSubSeq(fOut2, fOut)

\* C7 witness: the added deny filter removed a tag and left another
C7_Witness ==
    /\ fCall2 = "moredeny"
    /\ ~fErr2
    /\ fOut2 # <<>>
    /\ Len(fOut2) < Len(fOut)

C9_CheckCopiesNothing ==
    mode = "check" =>
        /\ semCur = 0
        /\ \A s \in Steps :
              /\ ~held[s]
              /\ ~backedUp[s]
              /\ pc[s] \in {"idle", "head", "seterr", "done"}

\* C9 witness: a check run has processed a step without error
C9_Witness ==
    /\ mode = "check"
    /\ pc[1] = "done"
    /\ ret[1] = "nil"

Sorted == hPc = "loop" /\ hFresh

MirrorFallback ==
    /\ hPc \in {"loop", "sleep", "returned"}
    /\ nMirrors = 2
    /\ ~noMirrors
    /\ ~ignoreErr
    /\ hClean
    /\ priority[1] = priority[Upstream]
    /\ priority[2] = priority[Upstream]
    /\ answers[1] = {"503"}
    /\ answers[2] = {"200"}

\* C13: in the mirror fallback scenario the client sends one request to
\* mirror 1, then one to mirror 2 and none to the host itself; when Next has
\* returned, the host's backoffCur is 0 and mirror 1 has backoffCur 1 and a
\* backoffUntil in the future
C13_MirrorFallback ==
    MirrorFallback =>
        /\ contacts[Upstream] = 0
        /\ contacts[1] <= 1
        /\ contacts[2] <= 1
        /\ contacts[2] = 1 => contacts[1] = 1
        /\ (hPc = "returned" /\ hRet = "nil") =>
              /\ contacts[1] = 1
              /\ contacts[2] = 1
              /\ backoffCur[Upstream] = 0
              /\ backoffCur[1] = 1
              /\ backoffUntil[1] > now

\* the hosts in the candidate list
InList(hs) == { hs[i] : i \in 1..Len(hs) }

\* a request is sent to host h in this step and its outcome is o
Contact(h, o) == contacts'[h] = contacts[h] + 1 /\ lastOut' = o

C15_AuthRetriesSameHost ==
    /\ [][\A h \in HostIds : Contact(h, "401a") =>
              /\ hPc' = "loop"
              /\ hosts' = hosts
              /\ curHost' = curHost
              /\ hosts[curHost] = h
              /\ backoffCur' = backoffCur
              /\ backoffUntil' = backoffUntil]_vars
    /\ [][(lastOut = "401a" /\ hPc = "loop") => mirror' = mirror]_vars
    /\ [][\A h \in HostIds : Contact(h, "401r") => h \notin InList(hosts')]_vars

C15_Witness ==
    /\ Len(hosts) > 1
    /\ contacts[mirror] = 2
    /\ nAuth = 1
    /\ lastOut = "200"
    /\ mirror = hosts[1]
    /\ \A h \in HostIds : backoffCur[h] = 0

\* the error Next returns when the last attempt ended in outcome o
StatusError(o) == IF o = "429" THEN "ErrRateLimit" ELSE "ErrHTTPStatus"

Min(a, b) == IF a < b THEN a ELSE b

\* the larger of two delays
Max(a, b) == IF a > b THEN a ELSE b

\* backoffSet runs on host h in this step (no other step raises backoffCur)
BackoffStep(h) == backoffCur'[h] = backoffCur[h] + 1

\* C17: with no Retry-After header the backoff that brings a host's
\* backoffCur to N (N <= retryLimit) sets its backoffUntil to
\* now + min(delayInit * 2^(N-1), delayMax)
C17_ExponentialDelay ==
    [][\A h \in HostIds :
          (BackoffStep(h) /\ respRA' = 0 /\ backoffCur'[h] <= retryLimit) =>
              backoffUntil'[h] = now' + Min(delayInit * (2 ^ (backoffCur'[h] - 1)), delayMax)]_vars

\* C18: when the response that caused the backoff carries Retry-After: K, the
\* host's backoffUntil is set to now + min(max(K, e), delayMax), where e is
\* the exponential delay backoffSet computes for this backoff
C18_RetryAfterDelay ==
    [][\A h \in HostIds :
          (BackoffStep(h) /\ respRA' > 0 /\ lastOut' = "429") =>
              backoffUntil'[h] =
                  now' + Min(Max(respRA', delayInit * (2 ^ backoffCur'[h])), delayMax)]_vars

C18_Witness ==
    /\ lastOut = "429"
    /\ respRA = 3
    /\ delayMax = 3
    /\ backoffCur[mirror] = 1
    /\ backoffUntil[mirror] = now + 3

\* the outcomes after which Next calls backoffSet (unless api.IgnoreErr)
Backoffs == {"neterr", "401r", "429", "504", "503"}

\* C19 as the claim has it: every backoff adds one to the host's backoffCur,
\* every successful response takes one off (zero stays zero), backoffCur is
\* never negative, and a backoffCur of zero has no backoffUntil
C19_BackoffCounter ==
    /\ [][\A h \in HostIds : \A o \in Backoffs :
              (Contact(h, o) /\ ~ignoreErr) => backoffCur'[h] = backoffCur[h] + 1]_vars
    /\ [][\A h \in HostIds :
              Contact(h, "200") => backoffCur'[h] = Max(backoffCur[h] - 1, 0)]_vars
    /\ [](\A h \in HostIds :
              /\ backoffCur[h] >= 0
              /\ backoffCur[h] = 0 => backoffUntil[h] = 0)

\* C19 as the code has it: a successful response first brings a backoffCur
\* above retryLimit down to retryLimit and then takes one off
C19_BackoffCounterClamped ==
    /\ [][\A h \in HostIds : \A o \in Backoffs :
              (Contact(h, o) /\ ~ignoreErr) => backoffCur'[h] = backoffCur[h] + 1]_vars
    /\ [][\A h \in HostIds :
              Contact(h, "200") =>
                  backoffCur'[h] = Max(Min(backoffCur[h], retryLimit) - 1, 0)]_vars
    /\ [](\A h \in HostIds :
              /\ backoffCur[h] >= 0
              /\ backoffCur[h] = 0 => backoffUntil[h] = 0)

C19_Witness ==
    /\ hPc = "returned"
    /\ lastOut = "200"
    /\ ~hClean
    /\ retryLimit = 1
    /\ contacts[Upstream] = 2
    /\ backoffCur[Upstream] = 0
    /\ backoffUntil[Upstream] = 0

\* C20: when Next returns because every candidate has been dropped, the
\* error is not-found if the last attempt was answered with a 404 and an
\* all-requests-failed error otherwise
C20_AllDroppedError ==
    (hPc = "returned" /\ hosts = <<>>) =>
        hRet = IF lastOut = "404" THEN "ErrNotFound" ELSE "ErrAllRequestsFailed"

\* C21: a context cancelled while Next sleeps for the backoff of a host makes
\* Next return a cancellation error (the sleep ends, and the head of the loop
\* returns the error of the context), at the time of the cancellation and
\* with no further request sent to any candidate
C21_CancelDuringSleep ==
    /\ [][(hPc = "sleep" /\ hCtxDone) =>
             /\ hPc' = "loop"
             /\ now' = now
             /\ contacts' = contacts
             /\ lastOut' = lastOut]_vars
    /\ [][(hPc = "loop" /\ hCtxDone) =>
             /\ hPc' = "returned"
             /\ hRet' = "ctxErr"
             /\ now' = now
             /\ contacts' = contacts
             /\ lastOut' = lastOut]_vars

C21_Witness ==
    /\ hPc = "returned"
    /\ hRet = "ctxErr"
    /\ hCtxDone
    /\ backoffUntil[mirror] > now
    /\ contacts[mirror] > 0

\* a is the beginning of b
IsPrefix(a, b) == Len(a) <= Len(b) /\ a = SubSeq(b, 1, Len(a))

\* a step of the Next that Read called sends a request
ResumeRequest == rPc = "next" /\ contacts' # contacts

\* the bytes returned over the original and the resumed responses are the
\* beginning of the object and are the bytes the one digester has seen
InOrder == IsPrefix(got, Object) /\ hashed = got

\* a resumed response without Content-Range drops its host and gives no body;
\* when it was the last candidate the read is over with what it has returned
NoContentRangeFails ==
    (ResumeRequest /\ lastOut' = "200nr") =>
        /\ hosts[curHost] \notin InList(hosts')
        /\ body' = body
        /\ hosts' = <<>> => (done' /\ rErr' # "nil" /\ got' = got)

\* C22 as the claim has it: after a body that ended before readMax every new
\* GET carries Range: bytes=readCur-readMax, the bytes returned are the
\* object's bytes in order, and a resumed response without Content-Range fails
C22_ResumeWithRange ==
    /\ [](InOrder)
    /\ [][ResumeRequest => range' = <<readCur, readMax>>]_vars
    /\ [][NoContentRangeFails]_vars

\* C22 as the code has it: the new GET carries the Range header when at
\* least one byte was read, and is a plain GET of the whole object when the
\* body ended before its first byte
C22_ResumeWithRangeAfterFirstByte ==
    /\ [](InOrder)
    /\ [][ResumeRequest =>
              range' = IF readCur > 0 THEN <<readCur, readMax>> ELSE <<>>]_vars
    /\ [][NoContentRangeFails]_vars

C22_Witness ==
    /\ rPc = "open"
    /\ done
    /\ rErr = "EOF"
    /\ resumes = 2
    /\ range = <<2, 3>>
    /\ got = <<1, 2, 3>>
    /\ digest = "match"

\* the read of a non-HEAD response with an expected digest comes to its end
ReadEnds == ~done /\ done' /\ method # "HEAD" /\ digest # ""

\* C23: such a read ends in a plain end-of-stream only with all readMax bytes
\* delivered and their digest the expected one; with all bytes delivered and
\* another digest it ends in a digest-mismatch error and no new request; with
\* bytes missing it ends in an error, not in a plain end-of-stream
C23_VerifiedEndOfStream ==
    [][ReadEnds =>
          /\ rErr' = "EOF" => (readCur' >= readMax /\ DigestMatches(hashed'))
          /\ (readCur' >= readMax /\ ~DigestMatches(hashed')) =>
                 (rErr' = "ErrDigestMismatch" /\ hPc' = hPc /\ contacts' = contacts)
          /\ readCur' < readMax => rErr' \notin {"nil", "EOF"}]_vars

\* the latest call has returned
Returned(op) == oPc = "idle" /\ oOp = op

\* C24: after ManifestDelete for digest d returned success index.json has no
\* entry with digest d and the blob file of d does not exist
C24_DeleteRemovesAllEntries ==
    (Returned("delete") /\ oRet = "nil") =>
        /\ \A i \in 1..Len(index) : index[i].digest # oRef.digest
        /\ blob[oRef.digest] = "absent"

\* C25: ManifestDelete with a reference without digest returns the
\* missing-digest error and leaves index.json and every blob file as they were
C25_DeleteNeedsDigest ==
    (Returned("delete") /\ oRef.digest = 0) =>
        /\ oRet = "ErrMissingDigest"
        /\ index = index0
        /\ blob = blob0

C25_Witness ==
    /\ Returned("delete")
    /\ oRef = [tag |-> "a", digest |-> 0]
    /\ oRet = "ErrMissingDigest"
    /\ \E i \in 1..Len(index) : index[i].tag = "a"
    /\ blob[1] = "full"

\* the entries of a tag in ms
EntriesOf(ms, tag) == { i \in 1..Len(ms) : ms[i].tag = tag }

C27_ReaderSeesOldOrNew ==
    (oOp = "put" /\ seen # <<>> /\ seen[1] = oMan) => seen[2] \in {blob0[oMan], "full"}

\* C28: a ManifestPut with the child option writes the blob file of the
\* manifest and leaves index.json as it was
C28_ChildLeavesIndex ==
    /\ [][(oOp = "put" /\ oChild) => (index' = index /\ hasIndex' = hasIndex)]_vars
    /\ []((Returned("put") /\ oChild) =>
            (oRet = "nil" /\ index = index0 /\ blob[oMan] = "full"))

C28_Witness ==
    /\ Returned("put")
    /\ oChild
    /\ oRef = [tag |-> "a", digest |-> 0]
    /\ oMan = 2
    /\ blob0[2] = "absent"
    /\ blob[2] = "full"
    /\ index = << [tag |-> "a", digest |-> 1] >>

\* C29: ManifestGet and ManifestHead with a reference that has a digest
\* return the manifest with that digest
C29_DigestIsAuthoritative ==
    (oPc = "idle" /\ oOp \in {"get", "head"} /\ oRef.digest # 0 /\ oRet = "nil") =>
        oGot = oRef.digest

\* C30: manifestCache.mu is not held by a worker whose rc.ManifestGet is in flight
C30_NoLockDuringManifestGet ==
    \A w \in Workers : gpPc[w] = "get" => cacheMu # w

\* C31: every read and every write of a host's backoffCur and backoffUntil
\* by requests that run at the same time is made while the request holds the
\* mutex that protects the host's state
C31_BackoffUnderMutex == access # <<>> => access.locked

\* ... the stores of backoffSet and backoffClear are made under c.mu
C31_WritesUnderMutex == (access # <<>> /\ access.write) => access.locked
C33_ReturnAwaitsStartedRuns ==
    mainPc = "returned" => \A s \in Steps : pc[s] \in {"idle", "jobstart"}
\* C34: process returns a non-nil error whenever the sync of at least one of
\* its repositories or tags failed; a later tag that syncs, or a later
\* repository with no matching tags, does not clear the recorded error
C34_ErrorIsKept == (pPc = "returned" /\ pFailed) => pRet # "nil"

\* ... a later tag that syncs does not clear it
C34_LaterTagKeepsErr == [][(pPc = "tag" /\ retErr # "nil") => retErr' # "nil"]_vars
\* the two HEADs of processRef for step s have answered in this step
HeadsDone(s) == pc[s] = "head" /\ pc'[s] # "head"

\* C35: if the target HEAD succeeds with the same digest as the source HEAD
\* and forceRecursive is unset or false, processRef returns success without
\* acquiring a permit and without any backup or copy
C35_SameDigestSkipsCopy ==
    [][\A s \in Steps :
          (HeadsDone(s) /\ headSame') =>
              /\ pc'[s] \in {"idle", "done"}
              /\ ret'[s] = "nil"
              /\ mainErr' = mainErr
              /\ ~held'[s] /\ ~backedUp'[s]
              /\ UNCHANGED semVars]_vars

\* C35 witness: a step whose target had the digest of the source has
\* returned nil, nothing was acquired or copied
C35_Witness ==
    /\ headSame
    /\ mode = "once"
    /\ pc[1] = "done"
    /\ ret[1] = "nil"
    /\ pc[2] = "idle"
    /\ semCur = 0
\* C36: filterTags does not modify the tag list it is given: after the call
\* the caller's list holds the same tags in the same positions, for every
\* combination of empty or non-empty allow and deny lists
C36_InputUnchanged == fPhase # "init" => fIn = fIn0

\* ... with an allow filter the result is a list of its own, and the
\* caller's list stays as it was
C36_InputUnchangedWithAllow == (fPhase # "init" /\ Len(fAllow) > 0) => fIn = fIn0
\* the delay the backoffSet of this step added to the current time
DelayAdded(h) == backoffUntil'[h] - now

\* C37: after every backoffSet, for every reachable value of backoffCur
\* (values above retryLimit accumulated over many failed requests to the
\* same host included) and with the width of the duration arithmetic, the
\* delay added to the current time is at least delayInit and at most delayMax
C37_DelayWithinBounds ==
    [][\A h \in HostIds :
          BackoffStep(h) => (DelayAdded(h) >= delayInit /\ DelayAdded(h) <= delayMax)]_vars

\* ... the delay is within the two as long as the shift of line 604 does
\* not leave the width of a duration
C37_DelayWithinBoundsBeforeOverflow ==
    [][\A h \in HostIds :
          (BackoffStep(h) /\ backoffCur'[h] < DurationBits - 1) =>
              (DelayAdded(h) >= delayInit /\ DelayAdded(h) <= delayMax)]_vars
\* Next has returned success, the error of the context or the error of the
\* last attempt
NextResult ==
    hPc = "returned" =>
        \/ hRet \in {"nil", "ctxErr"}
        \/ lastOut # "none" /\ hRet = Classify(lastOut).err

C39_NoLostIndexUpdate ==
    (Returned("put") /\ oRet = "nil" /\ o2Pc = "done" /\ Latest(oRef).tag # o2Ref.tag) =>
        /\ EntriesOf(index, Latest(oRef).tag) # {}
        /\ EntriesOf(index, o2Ref.tag) # {}

\* what a response that has ended gives to whatever is called on it: a Read
\* reports io.EOF, and no byte, request or backoff update comes of it
EndedStep ==
    /\ rErr' \in {rErr, "EOF"}
    /\ got' = got
    /\ readCur' = readCur
    /\ contacts' = contacts
    /\ backoffCur' = backoffCur
    /\ backoffUntil' = backoffUntil
    /\ hPc' = hPc

\* C40: once a Read of a response has reported end-of-stream or a digest
\* mismatch, or Close has been called, every later Read returns 0 bytes with
\* end-of-stream and issues no further HTTP request and no backoff update
C40_ReadAfterEnd ==
    [][(closed \/ rErr \in {"EOF", "ErrDigestMismatch"}) => EndedStep]_vars

\* C40 as the code has it: the same for a reported end-of-stream or digest
\* mismatch and for Close on a response that holds an HTTP response, which is
\* done from then on; a response without one (no host answered the last
\* request that was sent) is not changed by Close and its Read reports
\* ErrNotFound, still with no byte, request or backoff update
C40_ReadAfterEndOfAnsweredResponse ==
    /\ [](((closed /\ hasResp) \/ rErr \in {"EOF", "ErrDigestMismatch"}) => done)
    /\ [][(done \/ rErr \in {"EOF", "ErrDigestMismatch"}) => EndedStep]_vars
    /\ [][(closed /\ ~hasResp /\ ~done) =>
            /\ rErr' \in {rErr, "ErrNotFound"}
            /\ got' = got /\ readCur' = readCur /\ contacts' = contacts
            /\ backoffCur' = backoffCur /\ backoffUntil' = backoffUntil /\ hPc' = hPc]_vars

\* C40 witness: Close was called before the body was read to its end, and the
\* Read after it reported io.EOF
C40_Witness ==
    /\ closed
    /\ hasResp
    /\ rPc = "open"
    /\ method = "GET"
    /\ Len(got) < size
    /\ body # <<>>
    /\ rErr = "EOF"
====
